---- MODULE Spec2Model ----
(***************************************************************************)
(* VocabSnap: the SM-2 spaced-repetition scheduler (module SRS), the store *)
(* of entries (VocabDB), the study sessions of the application (App) and   *)
(* the parser of recognized text (OCR).                                    *)
(*                                                                         *)
(* Representation of the JavaScript numbers:                               *)
(*   - easeFactor is held in thousandths (2.5 is 2500), so that a state    *)
(*     read from a backup may carry an ease factor that is not a multiple  *)
(*     of 0.01 and the rounding of calculate has something to do;          *)
(*   - a timestamp of t milliseconds is the record [d, ms] with            *)
(*     t = d * DayMs + ms and 0 <= ms < DayMs, which keeps the arithmetic  *)
(*     of Date.now() + interval * 24*60*60*1000 exact;                     *)
(*   - null is the record Null, an entry without srs has srs = NoSrs;      *)
(*   - a string is the tuple of its characters, an object is a record      *)
(*     whose domain is the set of the properties it has.                   *)
(***************************************************************************)
EXTENDS Integers, Sequences, FiniteSets, TLC

VARIABLES
    words,   \* the entries (the list handed to SRS.getDueWords)
    now,     \* the value Date.now() returns at this moment
    last,    \* the most recent SRS.reviewWord call: its inputs and its result
    hist,    \* the qualities of the reviews made so far, in order
    due,     \* the result of the most recent SRS.getDueWords call
    store,   \* the object store "words" of VocabDB: id -> entry
    ui,      \* the state object of App and the screen shown
    writes,  \* the requests VocabDB has issued and not completed, in order
    timers,  \* the setTimeout callbacks not yet run, in order
    calls,   \* the SRS.calculate calls the sessions made, in order
    op,      \* the most recent operation on the store and its outcome
    ocr      \* the most recent parse: the text and what the parser made of it

appVars == <<store, ui, writes, timers, calls, op, ocr>>

vars == <<words, now, last, hist, due, store, ui, writes, timers, calls, op, ocr>>

----------------------------------------------------------------------------
(* Bounds of the model *)

MaxReviews == 5      \* reviews of one entry in a history
MaxDay == 2          \* last day the clock reaches
MaxReps == 3         \* repetitions of a scheduling state given as input
MaxInterval == 22    \* interval of a scheduling state given as input
MaxWords == 3        \* entries in a list given to getDueWords

----------------------------------------------------------------------------
(* Program constants *)

MIN_EASE_FACTOR == 1300

DEFAULT_EASE_FACTOR == 2500

DayMs == 24 * 60 * 60 * 1000

Null == [unset |-> TRUE]

NoSrs == [absent |-> TRUE]

----------------------------------------------------------------------------
(* Timestamps *)

Epoch == [d |-> 0, ms |-> 0]

\* t + n * 24*60*60*1000
AddDays(t, n) == [d |-> t.d + n, ms |-> t.ms]

\* t + k milliseconds
AddMs(t, k) == [d |-> t.d + ((t.ms + k) \div DayMs), ms |-> (t.ms + k) % DayMs]

\* the sign of a - b
TimeCompare(a, b) ==
    IF a.d # b.d THEN (IF a.d < b.d THEN -1 ELSE 1)
    ELSE IF a.ms # b.ms THEN (IF a.ms < b.ms THEN -1 ELSE 1)
    ELSE 0

\* !t for a timestamp or null: null and 0 are falsy
Falsy(t) == t = Null \/ t = Epoch

\* Math.round(n / k) for k > 0: the nearest integer, a half rounded up
MathRound(n, k) == (2 * n + k) \div (2 * k)

----------------------------------------------------------------------------
(* SRS.calculate *)

\* the interval after a failed review, as a bug would leave it: unchanged
NewInterval_KeepOnFail(quality, repetitions, easeFactor, interval) ==
    IF quality >= 3
    THEN CASE repetitions = 0 -> 1
           [] repetitions = 1 -> 6
           [] OTHER -> MathRound(interval * easeFactor, 1000)
    ELSE interval

\* the interval after a pass, as a bug would compute it: from the new ease factor
NewInterval_NewEase(quality, repetitions, easeFactor, interval) ==
    IF quality >= 3
    THEN CASE repetitions = 0 -> 1
           [] repetitions = 1 -> 6
           [] OTHER -> MathRound(interval * (easeFactor + (100 - (5 - quality) * (80 + (5 - quality) * 20))), 1000)
    ELSE 1

\* the interval without the fixed second step of 6 days
NewInterval_NoSecondStep(quality, repetitions, easeFactor, interval) ==
    IF quality >= 3
    THEN CASE repetitions = 0 -> 1
           [] OTHER -> MathRound(interval * easeFactor, 1000)
    ELSE 1

NewInterval(quality, repetitions, easeFactor, interval) ==
    IF quality >= 3
    THEN CASE repetitions = 0 -> 1
           [] repetitions = 1 -> 6
           [] OTHER -> MathRound(interval * easeFactor, 1000)
    ELSE 1

\* the repetitions as a bug would leave them after a fail: not reset
NewRepetitions_NoReset(quality, repetitions) ==
    IF quality >= 3 THEN repetitions + 1 ELSE repetitions

NewRepetitions(quality, repetitions) ==
    IF quality >= 3 THEN repetitions + 1 ELSE 0

\* the ease factor without its floor
NewEaseFactor_NoFloor(quality, easeFactor) ==
    MathRound(easeFactor + (100 - (5 - quality) * (80 + (5 - quality) * 20)), 10) * 10

\* the ease factor updated on a pass only
NewEaseFactor_PassOnly(quality, easeFactor) ==
    LET e == IF quality >= 3
             THEN easeFactor + (100 - (5 - quality) * (80 + (5 - quality) * 20))
             ELSE easeFactor
        f == IF e < MIN_EASE_FACTOR THEN MIN_EASE_FACTOR ELSE e
    IN  MathRound(f, 10) * 10

\* easeFactor + (0.1 - (5 - q) * (0.08 + (5 - q) * 0.02)), floored at
\* MIN_EASE_FACTOR, then Math.round(x * 100) / 100
NewEaseFactor(quality, easeFactor) ==
    LET e == easeFactor + (100 - (5 - quality) * (80 + (5 - quality) * 20))
        f == IF e < MIN_EASE_FACTOR THEN MIN_EASE_FACTOR ELSE e
    IN  MathRound(f, 10) * 10

\* t1 and t2 are the values of the two Date.now() calls, in the order made
calculate(quality, repetitions, easeFactor, interval, t1, t2) ==
    [ repetitions |-> NewRepetitions(quality, repetitions),
      easeFactor  |-> NewEaseFactor(quality, easeFactor),
      interval    |-> NewInterval(quality, repetitions, easeFactor, interval),
      nextReview  |-> AddDays(t1, NewInterval(quality, repetitions, easeFactor, interval)),
      lastReview  |-> t2 ]

initialData ==
    [ repetitions |-> 0,
      easeFactor  |-> DEFAULT_EASE_FACTOR,
      interval    |-> 0,
      nextReview  |-> Null,
      lastReview  |-> Null ]

\* word.srs || initialData()
SrsOf(word) == IF word.srs = NoSrs THEN initialData ELSE word.srs

reviewWord(word, quality, t1, t2) ==
    LET srs == SrsOf(word)
    IN  [word EXCEPT !.srs = calculate(quality, srs.repetitions, srs.easeFactor,
                                       srs.interval, t1, t2)]

----------------------------------------------------------------------------
(* SRS.getLevel *)

\* the level with the mastered test made before the learning test
getLevel_MasteredFirst(word) ==
    LET srs == SrsOf(word)
    IN  IF srs.repetitions = 0 /\ Falsy(srs.lastReview) THEN "new"
        ELSE IF srs.interval >= 21 THEN "mastered"
        ELSE IF srs.repetitions < 2 THEN "learning"
        ELSE "reviewing"

\* the level with the mastered threshold one day too high
getLevel_Above21(word) ==
    LET srs == SrsOf(word)
    IN  IF srs.repetitions = 0 /\ Falsy(srs.lastReview) THEN "new"
        ELSE IF srs.repetitions < 2 THEN "learning"
        ELSE IF srs.interval > 21 THEN "mastered"
        ELSE "reviewing"

getLevel(word) ==
    LET srs == SrsOf(word)
    IN  IF srs.repetitions = 0 /\ Falsy(srs.lastReview) THEN "new"
        ELSE IF srs.repetitions < 2 THEN "learning"
        ELSE IF srs.interval >= 21 THEN "mastered"
        ELSE "reviewing"

----------------------------------------------------------------------------
(* SRS.getDueWords *)

\* the due test with the comparison made strict
IsDue_Strict(w, t) ==
    IF w.srs = NoSrs \/ Falsy(w.srs.nextReview) THEN TRUE
    ELSE TimeCompare(w.srs.nextReview, t) < 0

\* the filter callback: !w.srs || !w.srs.nextReview, else nextReview <= now
IsDue(w, t) ==
    IF w.srs = NoSrs \/ Falsy(w.srs.nextReview) THEN TRUE
    ELSE TimeCompare(w.srs.nextReview, t) <= 0

\* (w.srs && w.srs.nextReview) || 0
SortKey(w) ==
    IF w.srs = NoSrs \/ Falsy(w.srs.nextReview) THEN Epoch ELSE w.srs.nextReview

\* the sort callback: aNext - bNext
DueCompare(a, b) == TimeCompare(SortKey(a), SortKey(b))

\* the due test of VocabDB.getDueWords, whose entries always have srs
DbIsDue(w, t) ==
    IF Falsy(w.srs.nextReview) THEN TRUE
    ELSE TimeCompare(w.srs.nextReview, t) <= 0

RECURSIVE Filter(_, _)
Filter(s, t) ==
    IF s = <<>> THEN <<>>
    ELSE IF IsDue(Head(s), t) THEN <<Head(s)>> \o Filter(Tail(s), t)
    ELSE Filter(Tail(s), t)

\* w placed after the elements of the sorted s that do not compare greater
RECURSIVE Insert(_, _)
Insert(s, w) ==
    IF s = <<>> THEN <<w>>
    ELSE IF DueCompare(Head(s), w) <= 0 THEN <<Head(s)>> \o Insert(Tail(s), w)
    ELSE <<w>> \o s

\* Array.prototype.sort, which is stable
RECURSIVE Sort(_)
Sort(s) ==
    IF s = <<>> THEN <<>>
    ELSE Insert(Sort(SubSeq(s, 1, Len(s) - 1)), s[Len(s)])

\* the due list as a bug would return it: filtered, not sorted
getDueWords_Unsorted(ws, t) == Filter(ws, t)

getDueWords(ws, t) == Sort(Filter(ws, t))

----------------------------------------------------------------------------
(* VocabDB: the queries of the home screen *)

\* VocabDB.getDueWords() on the entries getAllWords() returned at time t
DbDueWords(all, t) == SelectSeq(all, LAMBDA w : DbIsDue(w, t))

\* VocabDB.getMasteredWords() on the entries getAllWords() returned
getMasteredWords(all) ==
    SelectSeq(all, LAMBDA w : w.srs.repetitions >= 5 /\ w.srs.interval >= 21)

----------------------------------------------------------------------------
(* Inputs *)

\* the clock advances by 0 or 1 ms between the two Date.now() calls of calculate
ClockAdvance == {0, 1}

\* the qualities of the contract, and the values next to them
ValidQuality == 0..5

QualityInputs == -1..6

\* ease factors of the scheduling states given as input, in thousandths
EaseInputs == {1000, 1300, 1304, 1960, 2500, 2556}

\* timestamps of the states given as input: Date.now() values are positive
Times == {[d |-> d, ms |-> m] : d \in 1..MaxDay, m \in {0, 1}}

StartTimes == {[d |-> 1, ms |-> 0], [d |-> 1, ms |-> DayMs - 1]}

\* scheduling states as a backup may hold them
SrsInputs ==
    [ repetitions : 0..MaxReps,
      easeFactor  : EaseInputs,
      interval    : 0..MaxInterval,
      nextReview  : {Null, [d |-> 1, ms |-> 0]},
      lastReview  : {Null, [d |-> 1, ms |-> 0]} ]

\* what getDueWords reads of an entry
DueSrsInputs ==
    {NoSrs} \cup {[initialData EXCEPT !.nextReview = t] : t \in {Null} \cup Times}

RECURSIVE Lists(_, _)
Lists(S, n) ==
    IF n = 0 THEN {<<>>}
    ELSE Lists(S, n - 1) \cup
         {Append(l, x) : l \in {m \in Lists(S, n - 1) : Len(m) = n - 1}, x \in S}

Entry(i, srs) == [id |-> i, srs |-> srs]

WithIds(l) == [i \in 1..Len(l) |-> Entry(i, l[i])]

NotCalled == [called |-> FALSE]

----------------------------------------------------------------------------
(* Strings *)

Range(s) == {s[i] : i \in DOMAIN s}

UpperCase ==
    <<"A", "B", "C", "D", "E", "F", "G", "H", "I", "J", "K", "L", "M",
      "N", "O", "P", "Q", "R", "S", "T", "U", "V", "W", "X", "Y", "Z">>

LowerCase ==
    <<"a", "b", "c", "d", "e", "f", "g", "h", "i", "j", "k", "l", "m",
      "n", "o", "p", "q", "r", "s", "t", "u", "v", "w", "x", "y", "z">>

\* the lower-case letter of an upper-case letter
LowerOf(c) == LowerCase[CHOOSE i \in DOMAIN UpperCase : UpperCase[i] = c]

\* String.prototype.toLowerCase
ToLower(s) ==
    [i \in DOMAIN s |-> IF s[i] \in Range(UpperCase) THEN LowerOf(s[i]) ELSE s[i]]

\* a character String.prototype.trim removes and \s matches
IsSpace(c) == c = " "

\* String.prototype.trim
RECURSIVE Trim(_)
Trim(s) ==
    IF s = <<>> THEN s
    ELSE IF IsSpace(Head(s)) THEN Trim(Tail(s))
    ELSE IF IsSpace(s[Len(s)]) THEN Trim(SubSeq(s, 1, Len(s) - 1))
    ELSE s

----------------------------------------------------------------------------
(* VocabDB: the entries and the object store *)

\* the object has the property f
Has(data, f) == f \in DOMAIN data

\* data.f || '' for a string property
StrOr(data, f) == IF Has(data, f) THEN data[f] ELSE <<>>

\* Array.isArray(data.f) ? data.f : []
ArrOr(data, f) == IF Has(data, f) THEN data[f] ELSE <<>>

zeroStats ==
    [ flashcardCorrect |-> 0, flashcardIncorrect |-> 0,
      spellingCorrect |-> 0, spellingIncorrect |-> 0,
      matchingCorrect |-> 0, matchingIncorrect |-> 0 ]

\* createWordEntry(data), crypto.randomUUID() giving uuid and Date.now() t
createWordEntry(data, uuid, t) ==
    [ id          |-> IF Has(data, "id") THEN data.id ELSE uuid,
      word        |-> ToLower(Trim(StrOr(data, "word"))),
      wordDisplay |-> Trim(StrOr(data, "word")),
      meaning     |-> Trim(StrOr(data, "meaning")),
      phonetic    |-> Trim(StrOr(data, "phonetic")),
      pos         |-> Trim(StrOr(data, "pos")),
      examples    |-> ArrOr(data, "examples"),
      synonyms    |-> ArrOr(data, "synonyms"),
      antonyms    |-> ArrOr(data, "antonyms"),
      tags        |-> ArrOr(data, "tags"),
      memo        |-> Trim(StrOr(data, "memo")),
      bookmarked  |-> Has(data, "bookmarked") /\ data.bookmarked,
      srs         |-> IF Has(data, "srs") THEN data.srs ELSE initialData,
      stats       |-> IF Has(data, "stats") THEN data.stats ELSE zeroStats,
      createdAt   |-> IF Has(data, "createdAt") /\ ~Falsy(data.createdAt)
                      THEN data.createdAt ELSE t,
      updatedAt   |-> t ]

\* the store with no entry
emptyStore == [i \in {} |-> Null]

\* store.put(entry): the entry replaces the one of its id
Put(s, entry) ==
    [i \in DOMAIN s \cup {entry.id} |-> IF i = entry.id THEN entry ELSE s[i]]

\* an id no entry of the store has (crypto.randomUUID)
FreshId(s) == IF DOMAIN s = {} THEN 1 ELSE 1 + CHOOSE m \in DOMAIN s : \A i \in DOMAIN s : i <= m

\* getAllWords(): the entries in the order of their keys
RECURSIVE getAllWords(_)
getAllWords(s) ==
    IF DOMAIN s = {} THEN <<>>
    ELSE LET m == CHOOSE k \in DOMAIN s : \A i \in DOMAIN s : i <= k
         IN  Append(getAllWords([i \in DOMAIN s \ {m} |-> s[i]]), s[m])

----------------------------------------------------------------------------
(* App: the state object *)

\* the state of App before a session: no study list, every counter 0
idleUi ==
    [ screen      |-> "home",
      studyWords  |-> <<>>,
      fcIndex     |-> 0, fcCorrect |-> 0, fcIncorrect |-> 0,
      spIndex     |-> 0, spCorrect |-> 0, spIncorrect |-> 0,
      spAnswered  |-> FALSE,
      spNextShown |-> FALSE,
      mtTiles     |-> {}, mtSelected |-> Null, mtDone |-> {},
      mtMatched   |-> 0, mtTotal |-> 0, mtAttempts |-> 0,
      events      |-> 0,
      threw       |-> FALSE ]

\* the application at rest: empty store, nothing pending
AppIdle ==
    /\ store = emptyStore
    /\ ui = idleUi
    /\ writes = <<>>
    /\ timers = <<>>
    /\ calls = <<>>
    /\ op = NotCalled
    /\ ocr = NotCalled

----------------------------------------------------------------------------
(* Operations *)

\* SRS.reviewWord(words[i], q), the caller keeping the returned entry;
\* the clock reads t1 at the first Date.now() and t1 + adv at the second
Review(i, q, adv) ==
    LET t1 == now
        t2 == AddMs(now, adv)
        w  == reviewWord(words[i], q, t1, t2)
    IN  /\ words' = [words EXCEPT ![i] = w]
        /\ last' = [called |-> TRUE, index |-> i, quality |-> q,
                    before |-> SrsOf(words[i]), after |-> w.srs,
                    t1 |-> t1, t2 |-> t2]
        /\ hist' = Append(hist, q)
        /\ now' = t2
        /\ UNCHANGED <<due, appVars>>

\* a review with a quality of the contract, in a history of reviews
ReviewWord ==
    /\ Len(hist) < MaxReviews
    /\ \E i \in 1..Len(words), q \in ValidQuality, adv \in ClockAdvance :
           Review(i, q, adv)

\* one call with any quality on any state
CalculateAny ==
    /\ ~last.called
    /\ \E q \in QualityInputs, adv \in ClockAdvance : Review(1, q, adv)

\* a day passes
Tick ==
    /\ now.d < MaxDay
    /\ now' = AddDays(now, 1)
    /\ UNCHANGED <<words, last, hist, due, appVars>>

\* SRS.getDueWords(words)
GetDue ==
    /\ due' = [called |-> TRUE, at |-> now, list |-> getDueWords(words, now)]
    /\ UNCHANGED <<words, now, last, hist, appVars>>

----------------------------------------------------------------------------
(* Specifications *)

\* one fresh entry and its review history
Init ==
    /\ words = <<Entry(1, initialData)>>
    /\ now = [d |-> 1, ms |-> 0]
    /\ last = NotCalled
    /\ hist = <<>>
    /\ due = NotCalled
    /\ AppIdle

Next == ReviewWord

Spec == Init /\ [][Next]_vars

\* calculate and getLevel on every scheduling state of the input sets
InitAny ==
    /\ words \in {<<Entry(1, s)>> : s \in SrsInputs \cup {NoSrs}}
    /\ now \in StartTimes
    /\ last = NotCalled
    /\ hist = <<>>
    /\ due = NotCalled
    /\ AppIdle

NextAny == CalculateAny

SpecAny == InitAny /\ [][NextAny]_vars

\* getDueWords on every list of the input sets
InitDue ==
    /\ words \in {WithIds(l) : l \in Lists(DueSrsInputs, MaxWords)}
    /\ now \in Times
    /\ last = NotCalled
    /\ hist = <<>>
    /\ due = NotCalled
    /\ AppIdle

NextDue == GetDue \/ Tick

SpecDue == InitDue /\ [][NextDue]_vars

----------------------------------------------------------------------------
(* Properties of SRS.calculate *)

\* r is x / k rounded to the nearest integer, a half rounded up
IsNearest(r, x, k) == 2 * k * r <= 2 * x + k /\ 2 * k * r > 2 * x - k

\* C1: for every scheduling state and every quality in {0,1,2}, calculate
\* returns repetitions = 0 and interval = 1.
C1_FailResets ==
    (last.called /\ last.quality \in {0, 1, 2})
        => (last.after.repetitions = 0 /\ last.after.interval = 1)

\* a fail on a state that had built up repetitions and a long interval
C1_Witness ==
    /\ last.called
    /\ last.quality \in {0, 1, 2}
    /\ last.before.repetitions >= 2
    /\ last.before.interval >= 21
    /\ last.after.repetitions = 0
    /\ last.after.interval = 1

\* C2: for every quality in {3,4,5}, calculate returns repetitions + 1 and the
\* interval 1 (prior repetitions 0), 6 (prior repetitions 1) or
\* round(prior interval * prior easeFactor) (prior repetitions >= 2), the ease
\* factor being the one of the input state; so quality 4 three times from the
\* fresh state gives the intervals 1, 6, 15.
C2_PassProgression ==
    (last.called /\ last.quality \in {3, 4, 5}) =>
        LET b == last.before
            a == last.after
        IN  /\ a.repetitions = b.repetitions + 1
            /\ b.repetitions = 0 => a.interval = 1
            /\ b.repetitions = 1 => a.interval = 6
            /\ b.repetitions >= 2 =>
                   IsNearest(a.interval, b.interval * b.easeFactor, 1000)
            /\ (last.quality = 4 /\ b.easeFactor = 2500) =>
                   /\ (b.repetitions = 0 /\ b.interval = 0) =>
                          (a.repetitions = 1 /\ a.interval = 1 /\ a.easeFactor = 2500)
                   /\ (b.repetitions = 1 /\ b.interval = 1) =>
                          (a.repetitions = 2 /\ a.interval = 6 /\ a.easeFactor = 2500)
                   /\ (b.repetitions = 2 /\ b.interval = 6) =>
                          (a.repetitions = 3 /\ a.interval = 15)

\* a pass of quality 5 on a state with two repetitions, where the old and the
\* new ease factor give different intervals
C2_Witness ==
    /\ last.called
    /\ last.quality = 5
    /\ last.before.repetitions = 2
    /\ last.before.interval = 6
    /\ last.before.easeFactor = 2500
    /\ last.after.interval = 15
    /\ last.after.easeFactor = 2600

\* C3: from the fresh state, after any sequence of calculate calls with
\* qualities in 0..5, easeFactor is never below 1.3.
C3_EaseFloor ==
    \A i \in 1..Len(words) : SrsOf(words[i]).easeFactor >= 1300

\* a review of quality 0 whose update would have fallen below the floor
C3_Witness ==
    /\ last.called
    /\ last.quality = 0
    /\ last.before.easeFactor - 800 < 1300
    /\ last.after.easeFactor = 1300
    /\ words[1].srs.easeFactor = 1300

\* the change of the ease factor before the floor, in thousandths
EaseChange(q) ==
    CASE q = 5 -> 100
      [] q = 4 -> 0
      [] q = 3 -> -140
      [] q = 2 -> -320
      [] q = 1 -> -540
      [] q = 0 -> -800

\* C4: on every calculate call, pass or fail, the new ease factor is
\* max(1.3, easeFactor + change) rounded to two decimals, the change being
\* +0.10, 0, -0.14, -0.32, -0.54, -0.80 for quality 5, 4, 3, 2, 1, 0.
C4_EaseUpdate ==
    (last.called /\ last.quality \in 0..5) =>
        LET x == last.before.easeFactor + EaseChange(last.quality)
            f == IF x > 1300 THEN x ELSE 1300
            r == last.after.easeFactor
        IN  r % 10 = 0 /\ IsNearest(r \div 10, f, 10)

\* a fail that lowers an ease factor which is no multiple of 0.01
C4_Witness ==
    /\ last.called
    /\ last.quality = 1
    /\ last.before.easeFactor = 2556
    /\ last.after.easeFactor = 2020

\* C5: a calculate call whose quality is outside 0..5 is rejected and returns
\* no scheduling state.
C5_RejectsInvalidQuality ==
    (last.called /\ last.quality \notin 0..5)
        => "repetitions" \notin DOMAIN last.after

\* C6: lastReview is the time of the call and nextReview is that time plus
\* interval days, so nextReview - lastReview is interval * 86400000 ms.
C6_ExactSpan ==
    last.called =>
        /\ last.after.lastReview = last.t1
        /\ last.after.nextReview = AddDays(last.t1, last.after.interval)
        /\ last.after.nextReview = AddDays(last.after.lastReview, last.after.interval)

----------------------------------------------------------------------------
(* Properties of SRS.getDueWords *)

Unset(w) == w.srs = NoSrs \/ w.srs.nextReview = Null

\* timestamp a is not after timestamp b
NotAfter(a, b) == a.d < b.d \/ (a.d = b.d /\ a.ms <= b.ms)

DueIds(t) ==
    {i \in 1..Len(words) : Unset(words[i]) \/ NotAfter(words[i].srs.nextReview, t)}

\* C7: getDueWords returns exactly the entries whose nextReview is unset or
\* <= now, each once, ascending by nextReview with unset as the minimum, so
\* never-reviewed entries come before every overdue entry.
C7_DueSet ==
    due.called =>
        LET l == due.list
        IN  /\ Len(l) = Cardinality(DueIds(due.at))
            /\ {l[k].id : k \in 1..Len(l)} = DueIds(due.at)
            /\ \A k \in 1..Len(l) : l[k] = words[l[k].id]
            /\ \A j, k \in 1..Len(l) :
                   j < k =>
                       /\ Unset(l[k]) => Unset(l[j])
                       /\ (~Unset(l[j]) /\ ~Unset(l[k])) =>
                              NotAfter(l[j].srs.nextReview, l[k].srs.nextReview)

\* a list with an entry due exactly now ahead of a never-reviewed one, and an
\* entry that is not due yet: the result holds the never-reviewed one first
C7_Witness ==
    /\ due.called
    /\ Len(words) = 3
    /\ ~Unset(words[1])
    /\ Unset(words[2])
    /\ ~Unset(words[3])
    /\ Len(due.list) = 2
    /\ due.list[1].id = 2
    /\ due.list[2].id = 1
    /\ NotAfter(words[1].srs.nextReview, due.at)
    /\ words[1].srs.nextReview = due.at

----------------------------------------------------------------------------
(* Properties of SRS.getLevel *)

\* C8: getLevel returns new when repetitions = 0 and lastReview is unset,
\* learning when repetitions = 1, reviewing when repetitions >= 2 and
\* interval < 21.
C8_LevelBoundaries ==
    \A i \in 1..Len(words) :
        LET s == SrsOf(words[i])
        IN  /\ (s.repetitions = 0 /\ s.lastReview = Null) => getLevel(words[i]) = "new"
            /\ s.repetitions = 1 => getLevel(words[i]) = "learning"
            /\ (s.repetitions >= 2 /\ s.interval < 21) => getLevel(words[i]) = "reviewing"

\* an entry with one repetition and a long interval, which is learning
C8_Witness ==
    /\ words[1].srs # NoSrs
    /\ words[1].srs.repetitions = 1
    /\ words[1].srs.interval >= 21
    /\ getLevel(words[1]) = "learning"

\* C9 as stated: for every state that is not new, interval >= 21 implies
\* mastered, whatever the repetitions.
C9_LongIntervalIsMastered ==
    \A i \in 1..Len(words) :
        (getLevel(words[i]) # "new" /\ SrsOf(words[i]).interval >= 21)
            => getLevel(words[i]) = "mastered"

\* C9 as amended: interval >= 21 implies mastered when repetitions >= 2; a
\* state that is not new and has repetitions < 2 is learning whatever its
\* interval.
C9_MasteredNeedsTwoReps ==
    \A i \in 1..Len(words) :
        LET s == SrsOf(words[i])
        IN  /\ (s.repetitions >= 2 /\ s.interval >= 21) => getLevel(words[i]) = "mastered"
            /\ (s.repetitions < 2 /\ getLevel(words[i]) # "new") => getLevel(words[i]) = "learning"

\* an entry at the threshold: two repetitions and an interval of 21 days
C9_Witness ==
    /\ words[1].srs # NoSrs
    /\ words[1].srs.repetitions >= 2
    /\ words[1].srs.interval = 21
    /\ getLevel(words[1]) = "mastered"

----------------------------------------------------------------------------
(* Properties of a review history *)

\* C10: after a fail, the next pass yields repetitions = 1 and interval = 1
\* and the pass after that yields interval = 6, whatever came before the fail;
\* qualities 5, 1, 4 from fresh give (interval 1, repetitions 1), (1, 0), (1, 1).
C10_RestartAfterFail ==
    LET n == Len(hist)
        a == last.after
    IN  /\ (n >= 2 /\ hist[n - 1] < 3 /\ hist[n] >= 3) =>
               (a.repetitions = 1 /\ a.interval = 1)
        /\ (n >= 3 /\ hist[n - 2] < 3 /\ hist[n - 1] >= 3 /\ hist[n] >= 3) =>
               (a.repetitions = 2 /\ a.interval = 6)
        /\ hist = <<5>> => (a.interval = 1 /\ a.repetitions = 1)
        /\ hist = <<5, 1>> => (a.interval = 1 /\ a.repetitions = 0)
        /\ hist = <<5, 1, 4>> => (a.interval = 1 /\ a.repetitions = 1)

\* two passes that reach an interval of 6 days, a fail, then two passes
C10_Witness ==
    /\ Len(hist) = 5
    /\ hist[1] >= 3 /\ hist[2] >= 3 /\ hist[3] < 3 /\ hist[4] >= 3 /\ hist[5] >= 3
    /\ last.before.repetitions = 1
    /\ last.before.interval = 1
    /\ last.after.interval = 6

----------------------------------------------------------------------------
(* The home screen and the days after a review *)

MaxCycleReviews == 2   \* reviews of the entry while the days pass

\* a review of the entry on one of the days
ReviewInCycle ==
    /\ Len(hist) < MaxCycleReviews
    /\ \E q \in ValidQuality, adv \in ClockAdvance : Review(1, q, adv)

\* VocabDB.getDueWords(), the store holding the entries of words
GetDueDb ==
    /\ due' = [called |-> TRUE, at |-> now, list |-> DbDueWords(words, now),
               db |-> TRUE]
    /\ UNCHANGED <<words, now, last, hist, appVars>>

\* one fresh entry, reviewed and looked up in the due lists as the days pass
NextCycle == ReviewInCycle \/ Tick \/ GetDue \/ GetDueDb

SpecCycle == Init /\ [][NextCycle]_vars

\* C25: the entries VocabDB.getMasteredWords reports for the home screen are
\* the entries SRS.getLevel classifies as mastered, in every state reached by
\* reviews from a fresh entry.
C25_MasteredAgree ==
    LET mastered == getMasteredWords(words)
    IN  {mastered[k].id : k \in 1..Len(mastered)}
            = {i \in 1..Len(words) : getLevel(words[i]) = "mastered"}

\* C27: in every scheduling state reached from the fresh state by reviews of
\* quality 0..5, repetitions = 0 implies interval 0 or 1, repetitions = 1
\* implies interval 1 and repetitions = 2 implies interval 6; so interval >= 21
\* implies repetitions >= 3, and getLevel gives the same level when it tests
\* mastered before learning.
C27_EarlyIntervals ==
    \A i \in 1..Len(words) :
        LET s == SrsOf(words[i])
        IN  /\ s.repetitions = 0 => s.interval \in {0, 1}
            /\ s.repetitions = 1 => s.interval = 1
            /\ s.repetitions = 2 => s.interval = 6
            /\ s.interval >= 21 => s.repetitions >= 3
            /\ getLevel(words[i]) = getLevel_MasteredFirst(words[i])

\* a history that starts with a fail and ends mastered after four passes
C27_Witness ==
    /\ Len(hist) = 5
    /\ hist[1] < 3
    /\ words[1].srs.repetitions = 4
    /\ words[1].srs.interval >= 21
    /\ last.before.repetitions = 3
    /\ last.before.interval < 21
    /\ getLevel(words[1]) = "mastered"

\* the entry is in the list a due query returned
InDueList(i, d) == \E k \in 1..Len(d.list) : d.list[k].id = i

\* C28: a review at time t of an entry that started fresh returns an
\* interval >= 1 and a nextReview >= t + 1 day, t being the clock value the
\* review computes nextReview from; a due query (SRS.getDueWords or
\* VocabDB.getDueWords) made at time now holds the reviewed entry exactly
\* when now >= nextReview, and the entry not yet reviewed always.
C28_DueAfterReview ==
    [][ /\ last' # last =>
               /\ last'.after.interval >= 1
               /\ NotAfter(AddDays(last'.t1, 1), last'.after.nextReview)
               /\ ~NotAfter(last'.after.nextReview, now')
        /\ due' # due =>
               (InDueList(1, due') <=>
                    (Unset(words[1]) \/ NotAfter(words[1].srs.nextReview, now)))
      ]_vars

\* the entry was reviewed on day 1 at the start of the day, a day passed,
\* and the query made at the very millisecond of nextReview holds it again
C28_Witness ==
    /\ due.called
    /\ due.at = now
    /\ Len(hist) = 1
    /\ words[1].srs.interval = 1
    /\ words[1].srs.nextReview = now
    /\ due.list = words

----------------------------------------------------------------------------
(* App: the study sessions *)

MaxStudyWords == 2   \* entries in the store when a session starts
MaxEvents == 4       \* clicks, swipes and key presses of one session

\* the pairs of a matching game: Math.min(state.studyWords.length, 6)
MatchingPairs == 6

\* the words the entries of a session were added with
StudyWord(i) ==
    CASE i = 1 -> <<"a", "b">>
      [] i = 2 -> <<"B", "a">>
      [] i = 3 -> <<"a", "a">>
      [] OTHER -> <<"b", "b">>

\* the store after n entries were added on day 1
RECURSIVE StoreOf(_)
StoreOf(n) ==
    IF n = 0 THEN emptyStore
    ELSE Put(StoreOf(n - 1),
             createWordEntry([word |-> StudyWord(n), meaning |-> <<"j">>],
                             n, [d |-> 1, ms |-> 0]))

\* shuffleArray(s): the orders a list of distinct elements may come back in
Shuffles(s) == {t \in [1..Len(s) -> Range(s)] : Range(t) = Range(s)}

\* the entry of the study list replaced by its mutated self
ReplaceById(ws, w) == [i \in DOMAIN ws |-> IF ws[i].id = w.id THEN w ELSE ws[i]]

\* state.studyWords.find(w => w.id === id)
FindById(ws, id) == {ws[i] : i \in {j \in DOMAIN ws : ws[j].id = id}}

\* the quality answerFlashcard passes to SRS.calculate
FlashcardQuality(correct) == IF correct THEN 4 ELSE 1

\* the quality of a spelling answer, as a bug would have it: the flashcard's
SpellingQuality_AsFlashcard(correct) == IF correct THEN 4 ELSE 1

\* the quality checkSpelling passes to SRS.calculate
SpellingQuality(correct) == IF correct THEN (IF correct THEN 5 ELSE 1) ELSE 1

\* checkSpelling: the answer typed against the word of the entry
SpellingCorrect(value, word) == ToLower(Trim(value)) = ToLower(word.word)

\* what the user may type for an entry
SpellingAnswers(word) ==
    { <<>>, <<" ">>, word.wordDisplay, <<" ">> \o word.word \o <<" ">>, <<"x">> }

\* word.srs = SRS.calculate(quality, word.srs.repetitions, ...)
Rescheduled(word, quality, t1, t2) ==
    calculate(quality, word.srs.repetitions, word.srs.easeFactor,
              word.srs.interval, t1, t2)

\* a matching tile of a pair as a bug would count it: like a flashcard answer
MatchedEntry_Scheduled(word, correct, t) ==
    [word EXCEPT !.stats.matchingCorrect = IF correct THEN @ + 1 ELSE @,
                 !.stats.matchingIncorrect = IF correct THEN @ ELSE @ + 1,
                 !.srs = Rescheduled(word, FlashcardQuality(correct), t, t),
                 !.updatedAt = t]

\* handleMatchingTileClick: the entry after a second tile was chosen
MatchedEntry(word, correct, t) ==
    [word EXCEPT !.stats.matchingCorrect = IF correct THEN @ + 1 ELSE @,
                 !.stats.matchingIncorrect = IF correct THEN @ ELSE @ + 1,
                 !.updatedAt = t]

\* VocabDB.updateWord(entry) issued, the code after the await being "then"
PutRequest(entry, then, correct) ==
    [kind |-> "put", entry |-> entry, then |-> then, correct |-> correct]

\* finishStudy(type, correct, incorrect) up to its await of addStudyLog
LogRequest(type, correct, incorrect) ==
    [kind |-> "log", type |-> type, correctCount |-> correct,
     wordCount |-> correct + incorrect]

SessionUnchanged == UNCHANGED <<words, last, hist, due, op, ocr>>

\* startStudyMode(mode) for the filter "all": the study list is the store,
\* shuffled; then startFlashcard, startSpelling or startMatching
startStudyMode(mode) ==
    /\ ui.screen = "study"
    /\ \E list \in Shuffles(getAllWords(store)) :
          IF Len(list) = 0 THEN UNCHANGED ui
          ELSE IF mode = "flashcard" THEN
              ui' = [ui EXCEPT !.studyWords = list, !.screen = "flashcard",
                               !.fcIndex = 0, !.fcCorrect = 0, !.fcIncorrect = 0]
          ELSE IF mode = "spelling" THEN
              ui' = [ui EXCEPT !.studyWords = list, !.screen = "spelling",
                               !.spIndex = 0, !.spCorrect = 0, !.spIncorrect = 0,
                               !.spAnswered = FALSE, !.spNextShown = FALSE]
          ELSE LET count == IF Len(list) < MatchingPairs THEN Len(list)
                            ELSE MatchingPairs
               IN  IF count < 2 THEN ui' = [ui EXCEPT !.studyWords = list]
                   ELSE ui' = [ui EXCEPT
                           !.studyWords = list, !.screen = "matching",
                           !.mtTiles = {[pairId |-> list[i].id, type |-> ty] :
                                           i \in 1..count, ty \in {"word", "meaning"}},
                           !.mtSelected = Null, !.mtDone = {},
                           !.mtMatched = 0, !.mtTotal = count, !.mtAttempts = 0]
    /\ UNCHANGED <<store, now, writes, timers, calls>>
    /\ SessionUnchanged

\* answerFlashcard(correct) up to its await: a click on a button or a swipe.
\* A handler of a session runs 1 ms after the one before it and reads one
\* value of the clock.
answerFlashcard(correct) ==
    LET t == AddMs(now, 1)
        counted == [ui EXCEPT !.fcCorrect = IF correct THEN @ + 1 ELSE @,
                              !.fcIncorrect = IF correct THEN @ ELSE @ + 1,
                              !.events = @ + 1]
    IN  /\ ui.screen = "flashcard"
        /\ ui.events < MaxEvents
        /\ now' = t
        /\ IF ui.fcIndex >= Len(ui.studyWords)
           THEN \* word is undefined: word.stats throws a TypeError
                /\ ui' = [counted EXCEPT !.threw = TRUE]
                /\ UNCHANGED <<writes, calls>>
           ELSE LET word == ui.studyWords[ui.fcIndex + 1]
                    quality == FlashcardQuality(correct)
                    after == [word EXCEPT
                        !.stats.flashcardCorrect = IF correct THEN @ + 1 ELSE @,
                        !.stats.flashcardIncorrect = IF correct THEN @ ELSE @ + 1,
                        !.srs = Rescheduled(word, quality, t, t),
                        !.updatedAt = t]
                IN  /\ ui' = [counted EXCEPT !.studyWords = ReplaceById(@, after)]
                    /\ writes' = Append(writes, PutRequest(after, "flashcard", correct))
                    /\ calls' = Append(calls,
                           [mode |-> "flashcard", id |-> word.id, correct |-> correct,
                            quality |-> quality, value |-> <<>>, word |-> word.word,
                            pending |-> Len(writes) + Len(timers)])
        /\ UNCHANGED <<store, timers>>
        /\ SessionUnchanged

\* showFlashcard / showSpellingQuestion at index i of the study list
ShowCard(u, type, i, correct, incorrect) ==
    IF i >= Len(u.studyWords)
    THEN /\ ui' = u
         /\ writes' = Append(writes, LogRequest(type, correct, incorrect))
    ELSE /\ ui' = IF type = "spelling"
                  THEN [u EXCEPT !.spAnswered = FALSE, !.spNextShown = FALSE]
                  ELSE u
         /\ UNCHANGED writes

\* checkSpelling() up to its await: the submit button or the Enter key
checkSpelling(value) ==
    LET t == AddMs(now, 1)
        answer == ToLower(Trim(value))
    IN  /\ ui.screen = "spelling"
        /\ ui.events < MaxEvents
        /\ ~ui.spAnswered
        /\ now' = t
        /\ IF answer = <<>>
           THEN /\ ui' = [ui EXCEPT !.events = @ + 1]
                /\ UNCHANGED <<writes, calls>>
           ELSE IF ui.spIndex >= Len(ui.studyWords)
           THEN \* word is undefined: word.word throws a TypeError
                /\ ui' = [ui EXCEPT !.events = @ + 1, !.spAnswered = TRUE,
                                    !.threw = TRUE]
                /\ UNCHANGED <<writes, calls>>
           ELSE LET word == ui.studyWords[ui.spIndex + 1]
                    correct == SpellingCorrect(value, word)
                    quality == SpellingQuality(correct)
                    after == [word EXCEPT
                        !.stats.spellingCorrect = IF correct THEN @ + 1 ELSE @,
                        !.stats.spellingIncorrect = IF correct THEN @ ELSE @ + 1,
                        !.srs = Rescheduled(word, quality, t, t),
                        !.updatedAt = t]
                IN  /\ ui' = [ui EXCEPT
                           !.events = @ + 1, !.spAnswered = TRUE,
                           !.spCorrect = IF correct THEN @ + 1 ELSE @,
                           !.spIncorrect = IF correct THEN @ ELSE @ + 1,
                           !.studyWords = ReplaceById(@, after)]
                    /\ writes' = Append(writes, PutRequest(after, "spelling", correct))
                    /\ calls' = Append(calls,
                           [mode |-> "spelling", id |-> word.id, correct |-> correct,
                            quality |-> quality, value |-> value, word |-> word.word,
                            pending |-> Len(writes) + Len(timers)])
        /\ UNCHANGED <<store, timers>>
        /\ SessionUnchanged

\* nextSpelling(): the Next button once shown, or the Enter key once answered
nextSpelling ==
    /\ ui.screen = "spelling"
    /\ ui.events < MaxEvents
    /\ ui.spAnswered \/ ui.spNextShown
    /\ ShowCard([ui EXCEPT !.spIndex = @ + 1, !.events = @ + 1], "spelling",
                ui.spIndex + 1, ui.spCorrect, ui.spIncorrect)
    /\ UNCHANGED <<store, now, timers, calls>>
    /\ SessionUnchanged

\* handleMatchingTileClick(tile) up to its await
handleMatchingTileClick(tile) ==
    LET t == AddMs(now, 1)
        first == ui.mtSelected
        counted == [ui EXCEPT !.events = @ + 1]
    IN  /\ ui.screen = "matching"
        /\ ui.events < MaxEvents
        /\ tile \in ui.mtTiles
        /\ now' = t
        /\ IF tile \in ui.mtDone THEN
               ui' = counted /\ UNCHANGED writes
           ELSE IF first = Null THEN
               ui' = [counted EXCEPT !.mtSelected = tile] /\ UNCHANGED writes
           ELSE IF first = tile THEN
               ui' = [counted EXCEPT !.mtSelected = Null] /\ UNCHANGED writes
           ELSE
               LET match == first.pairId = tile.pairId /\ first.type # tile.type
                   found == FindById(ui.studyWords, tile.pairId)
                   tried == [counted EXCEPT
                       !.mtAttempts = @ + 1,
                       !.mtMatched = IF match THEN @ + 1 ELSE @,
                       !.mtDone = IF match THEN @ \cup {first, tile} ELSE @]
               IN  \E word \in found :
                     LET after == MatchedEntry(word, match, t)
                     IN  /\ ui' = [tried EXCEPT !.studyWords = ReplaceById(@, after)]
                         /\ writes' = Append(writes,
                                PutRequest(after, "matching", match))
        /\ UNCHANGED <<store, timers, calls>>
        /\ SessionUnchanged

\* a request of VocabDB completes and the code after its await runs
WriteDone ==
    /\ writes # <<>>
    /\ LET r == Head(writes)
       IN  /\ writes' = Tail(writes)
           /\ IF r.kind = "log" THEN
                  \* finishStudy: navigate('results')
                  /\ ui' = [ui EXCEPT !.screen = "results"]
                  /\ UNCHANGED <<store, timers>>
              ELSE
                  /\ store' = Put(store, r.entry)
                  /\ IF r.then = "flashcard" THEN
                         /\ timers' = Append(timers, "flashcard")
                         /\ UNCHANGED ui
                     ELSE IF r.then = "spelling" THEN
                         /\ ui' = [ui EXCEPT !.spNextShown = TRUE]
                         /\ timers' = IF r.correct THEN Append(timers, "spelling")
                                      ELSE timers
                     ELSE
                         /\ ui' = [ui EXCEPT !.mtSelected = Null]
                         /\ timers' = IF r.correct /\ ui.mtMatched = ui.mtTotal
                                      THEN Append(timers, "matching")
                                      ELSE timers
    /\ UNCHANGED <<now, calls>>
    /\ SessionUnchanged

\* the callback of a setTimeout runs
TimerFires ==
    /\ timers # <<>>
    /\ timers' = Tail(timers)
    /\ IF Head(timers) = "flashcard" THEN
           ShowCard([ui EXCEPT !.fcIndex = @ + 1], "flashcard",
                    ui.fcIndex + 1, ui.fcCorrect, ui.fcIncorrect)
       ELSE IF Head(timers) = "spelling" THEN
           ShowCard([ui EXCEPT !.spIndex = @ + 1], "spelling",
                    ui.spIndex + 1, ui.spCorrect, ui.spIncorrect)
       ELSE
           /\ writes' = Append(writes, LogRequest("matching", ui.mtMatched,
                                                  ui.mtAttempts - ui.mtMatched))
           /\ UNCHANGED ui
    /\ UNCHANGED <<store, now, calls>>
    /\ SessionUnchanged

\* a store of one entry or more, the study screen open, and a session
InitStudy ==
    /\ words = <<>>
    /\ now = [d |-> 1, ms |-> 1]
    /\ last = NotCalled
    /\ hist = <<>>
    /\ due = NotCalled
    /\ store \in {StoreOf(n) : n \in 0..MaxStudyWords}
    /\ ui = [idleUi EXCEPT !.screen = "study"]
    /\ writes = <<>>
    /\ timers = <<>>
    /\ calls = <<>>
    /\ op = NotCalled
    /\ ocr = NotCalled

NextStudy ==
    \/ \E mode \in {"flashcard", "spelling", "matching"} : startStudyMode(mode)
    \/ \E correct \in BOOLEAN : answerFlashcard(correct)
    \/ \E i \in DOMAIN ui.studyWords :
          \E value \in SpellingAnswers(ui.studyWords[i]) : checkSpelling(value)
    \/ nextSpelling
    \/ \E tile \in ui.mtTiles : handleMatchingTileClick(tile)
    \/ WriteDone
    \/ TimerFires

SpecStudy == InitStudy /\ [][NextStudy]_vars

----------------------------------------------------------------------------
(* Properties of the study sessions *)

\* the calls of the log made for the entry id
CallsOf(id) == {k \in DOMAIN calls : calls[k].id = id}

\* C11: the session passes quality 4 to the scheduler for a flashcard
\* answered correct and 1 for one answered incorrect, 5 for a spelling answer
\* that equals the word of the entry without regard to case and 1 for any
\* other non-empty spelling answer; no other quality is passed, and an empty
\* answer makes no call.
C11_QualityMapping ==
    \A k \in DOMAIN calls :
        LET c == calls[k]
        IN  /\ c.quality \in {1, 4, 5}
            /\ c.mode = "flashcard" => c.quality = (IF c.correct THEN 4 ELSE 1)
            /\ c.mode = "spelling" =>
                 /\ Trim(c.value) # <<>>
                 /\ c.quality = (IF ToLower(Trim(c.value)) = c.word THEN 5 ELSE 1)

\* a spelling session in which an answer typed in another case than the
\* stored word was scheduled with 5 and a wrong one with 1
C11_Witness ==
    /\ \E k \in DOMAIN calls :
          /\ calls[k].mode = "spelling"
          /\ calls[k].quality = 5
          /\ calls[k].value # calls[k].word
    /\ \E k \in DOMAIN calls :
          /\ calls[k].mode = "spelling"
          /\ calls[k].quality = 1

\* an entry with the fields a matching game may change set aside
MatchingFrame(e) ==
    [e EXCEPT !.stats.matchingCorrect = 0, !.stats.matchingIncorrect = 0,
              !.updatedAt = Null]

C13_OneReviewAtATime ==
    (\A k \in DOMAIN calls : calls[k].mode = "flashcard") =>
        /\ \A k \in DOMAIN calls : calls[k].pending = 0
        /\ \A i \in DOMAIN ui.studyWords :
              /\ Cardinality(CallsOf(ui.studyWords[i].id)) <= 1
              /\ ui.screen = "results" =>
                     Cardinality(CallsOf(ui.studyWords[i].id)) = 1

\* C26: in a spelling session, however submit, the Next button or the Enter
\* key and the 1200 ms timer of a correct answer interleave, the question
\* index advances by one for each answered question: no entry of the study
\* list is passed without an answer, and no entry is scheduled twice.
C26_OneAdvancePerAnswer ==
    LET answered == {k \in DOMAIN calls : calls[k].mode = "spelling"}
    IN  /\ ui.spIndex <= Cardinality(answered)
        /\ \A k, l \in answered : k # l => calls[k].id # calls[l].id

----------------------------------------------------------------------------
(* VocabDB and App: adding, editing, export and import *)

MaxOps == 2          \* operations on the store in one history
MaxItems == 2        \* candidates in the review form when it is saved

\* what the user may type into a text field
TextInputs == { <<>>, <<" ">>, <<"A", "b">>, <<"b", "a", " ">> }

MeaningInputs == { <<>>, <<"j">> }

\* the candidates of the review form as the user left them: no word, word
\* and meaning, no meaning
ParsedItems ==
    { [word |-> <<" ">>, meaning |-> <<"j">>],
      [word |-> <<"A", "b">>, meaning |-> <<"j">>],
      [word |-> <<"b", "a", " ">>, meaning |-> <<>>] }

ParsedItemLists == Lists(ParsedItems, MaxItems)

\* JSON.stringify of a timestamp or null, and JSON.parse of it
JsonOfTime(t) == IF t = Null THEN [json |-> "null"] ELSE [json |-> "number", ms |-> t]

TimeOfJson(j) == IF j.json = "null" THEN Null ELSE j.ms

\* JSON.stringify of an entry: its properties, the timestamps written out
JsonOfEntry(e) ==
    [e EXCEPT !.srs.nextReview = JsonOfTime(@), !.srs.lastReview = JsonOfTime(@),
              !.createdAt = JsonOfTime(@), !.updatedAt = JsonOfTime(@)]

\* JSON.parse of an object of the words array
EntryOfJson(j) ==
    [f \in DOMAIN j |->
        IF f \in {"createdAt", "updatedAt"} THEN TimeOfJson(j[f])
        ELSE IF f = "srs"
        THEN [g \in DOMAIN j[f] |->
                  IF g \in {"nextReview", "lastReview"} THEN TimeOfJson(j[f][g])
                  ELSE j[f][g]]
        ELSE j[f]]

\* exportData(): the text of the backup
exportData(s) ==
    [ version |-> 1,
      words   |-> [i \in DOMAIN getAllWords(s) |-> JsonOfEntry(getAllWords(s)[i])] ]

\* backups written by hand: no entry, an entry of word and meaning, an object
\* without a word, an entry followed by null, a text without a words array,
\* a text that is not JSON
Backups ==
    { [version |-> 1, words |-> <<>>],
      [version |-> 1, words |-> << [word |-> <<"A", "b">>, meaning |-> <<"j">>] >>],
      [version |-> 1, words |-> << [meaning |-> <<"j">>] >>],
      [version |-> 1, words |-> << [word |-> <<"A", "b">>, meaning |-> <<"j">>], Null >>],
      [version |-> 1],
      [syntaxError |-> TRUE] }

\* an element of data.words on which word.word and createWordEntry(word)
\* raise a TypeError: null
Malformed(j) == j = Null

\* importData: the loop over data.words, from the element k on; existing is
\* the set of the words the store held when a merge started
RECURSIVE ImportWords(_, _, _, _, _, _)
ImportWords(s, ws, k, mergeMode, existing, t) ==
    IF k > Len(ws) THEN s
    ELSE IF Malformed(ws[k])
    THEN \* the TypeError leaves the loop; nothing aborts the transaction, and
         \* the entries put so far are committed
         s
    ELSE LET word == EntryOfJson(ws[k])
         IN  IF mergeMode /\ ToLower(StrOr(word, "word")) \in existing
             THEN ImportWords(s, ws, k + 1, mergeMode, existing, t)
             ELSE LET validated == createWordEntry(word, FreshId(s), t)
                      entry == IF mergeMode
                               THEN [validated EXCEPT !.id = FreshId(s)]
                               ELSE validated
                  IN  ImportWords(Put(s, entry), ws, k + 1, mergeMode, existing, t)

\* the text is JSON and data.words is an array
ValidBackup(json) == ~Has(json, "syntaxError") /\ Has(json, "words")

\* importData(jsonString, mergeMode) rejects
importThrows(json) ==
    \/ ~ValidBackup(json)
    \/ \E k \in DOMAIN json.words : Malformed(json.words[k])

\* importData(jsonString, mergeMode): the store it leaves; clearAllWords has
\* completed in a transaction of its own before the loop starts
importData(s, json, mergeMode, t) ==
    IF ~ValidBackup(json) THEN s
    ELSE ImportWords(IF mergeMode THEN s ELSE emptyStore, json.words, 1, mergeMode,
                     {ToLower(s[i].word) : i \in DOMAIN s}, t)

\* the save handler of editWordModal: the entry it puts
EditedEntry(word, wordValue, meaningValue, t) ==
    [word EXCEPT !.wordDisplay = Trim(wordValue),
                 !.word = ToLower(Trim(wordValue)),
                 !.meaning = Trim(meaningValue),
                 !.updatedAt = t]

StoreUnchanged == UNCHANGED <<words, last, hist, due, writes, timers, calls, ocr>>

\* an operation on the store took place
Counted(kind, json, mergeMode) ==
    /\ ui' = [ui EXCEPT !.events = @ + 1]
    /\ now' = AddMs(now, 1)
    /\ op' = [called |-> TRUE, kind |-> kind, before |-> store, json |-> json,
              mergeMode |-> mergeMode]
    /\ StoreUnchanged

\* handleManualAdd: the form submitted with word and meaning
handleManualAdd(wordValue, meaningValue) ==
    LET word == Trim(wordValue)
        meaning == Trim(meaningValue)
    IN  /\ ui.events < MaxOps
        /\ store' = IF word = <<>> \/ meaning = <<>> THEN store
                    ELSE Put(store, createWordEntry([word |-> word, meaning |-> meaning],
                                                    FreshId(store), AddMs(now, 1)))
        /\ Counted("add", Null, FALSE)

\* saveParsedWords: the candidates of the review form, kept when word and
\* meaning are both given, and added in one transaction
RECURSIVE addWords(_, _, _)
addWords(s, items, t) ==
    IF items = <<>> THEN s
    ELSE LET word == Trim(Head(items).word)
             meaning == Trim(Head(items).meaning)
         IN  addWords(IF word = <<>> \/ meaning = <<>> THEN s
                      ELSE Put(s, createWordEntry([word |-> word, meaning |-> meaning],
                                                  FreshId(s), t)),
                      Tail(items), t)

saveParsedWords(items) ==
    /\ ui.events < MaxOps
    /\ store' = addWords(store, items, AddMs(now, 1))
    /\ Counted("save", Null, FALSE)

\* editWordModal(id) and its save button
editWordModal(id, wordValue, meaningValue) ==
    /\ ui.events < MaxOps
    /\ id \in DOMAIN store
    /\ store' = Put(store, EditedEntry(store[id], wordValue, meaningValue, AddMs(now, 1)))
    /\ Counted("edit", Null, FALSE)

\* exportData(): the backup is kept in op.json
ExportData ==
    /\ ui.events < MaxOps
    /\ UNCHANGED store
    /\ Counted("export", exportData(store), FALSE)

\* importData(jsonString, mergeMode) of a backup written by hand or of the
\* backup just exported
ImportData ==
    /\ ui.events < MaxOps
    /\ \E json \in Backups \cup (IF op.called /\ op.kind = "export" THEN {op.json} ELSE {}),
          mergeMode \in BOOLEAN :
           /\ store' = importData(store, json, mergeMode, AddMs(now, 1))
           /\ Counted("import", json, mergeMode)

\* an entry that was reviewed once
ReviewedEntry ==
    LET t == [d |-> 1, ms |-> 0]
        e == createWordEntry([word |-> <<"B", "a">>, meaning |-> <<"j">>], 1, t)
    IN  [e EXCEPT !.srs = calculate(4, 0, 2500, 0, t, t), !.stats.flashcardCorrect = 1]

\* the store empty, or holding entries added by hand, one of them reviewed
InitStore ==
    /\ words = <<>>
    /\ now = [d |-> 1, ms |-> 1]
    /\ last = NotCalled
    /\ hist = <<>>
    /\ due = NotCalled
    /\ store \in {emptyStore, StoreOf(1), Put(StoreOf(2), ReviewedEntry)}
    /\ ui = idleUi
    /\ writes = <<>>
    /\ timers = <<>>
    /\ calls = <<>>
    /\ op = NotCalled
    /\ ocr = NotCalled

NextStore ==
    \/ \E w \in TextInputs, m \in MeaningInputs : handleManualAdd(w, m)
    \/ \E items \in ParsedItemLists : saveParsedWords(items)
    \/ \E id \in DOMAIN store, w \in TextInputs, m \in MeaningInputs :
          editWordModal(id, w, m)
    \/ ExportData
    \/ ImportData

SpecStore == InitStore /\ [][NextStore]_vars

----------------------------------------------------------------------------
(* Properties of the store *)

\* C19 (as stated): after any sequence of manual add, save of parsed
\* candidates, edit in the edit dialog and backup import, every entry of the
\* store has a non-empty word.
C19_WordNonEmpty ==
    \A id \in DOMAIN store : store[id].word # <<>>

\* the fields a backup must bring back
RoundTripFields(e) ==
    [ id |-> e.id, word |-> e.word, wordDisplay |-> e.wordDisplay,
      meaning |-> e.meaning, phonetic |-> e.phonetic, pos |-> e.pos,
      examples |-> e.examples, synonyms |-> e.synonyms, antonyms |-> e.antonyms,
      stats |-> e.stats, srs |-> e.srs ]

\* C20 (as stated): after exportData and importData of its output in replace
\* mode the store holds the same entries, each with the id, word, wordDisplay,
\* meaning, phonetic, pos, examples, synonyms, antonyms, stats and srs it had,
\* an unset nextReview or lastReview still unset.
C20_RoundTrip ==
    (op.called /\ op.kind = "import" /\ ~op.mergeMode
        /\ op.json = exportData(op.before)) =>
        /\ DOMAIN store = DOMAIN op.before
        /\ \A id \in DOMAIN op.before :
              RoundTripFields(store[id]) = RoundTripFields(op.before[id])

\* C30: when importData rejects in replace mode, whatever the reason (a text
\* that is not JSON, no words array, a malformed element of the words
\* array), the store holds the entries it held before the call.
C30_FailedImportKeepsStore ==
    (op.called /\ op.kind = "import" /\ ~op.mergeMode /\ importThrows(op.json))
        => store = op.before

----------------------------------------------------------------------------
(* OCR: the characters of a recognized text *)

(* A line is the tuple of its characters.  The characters outside ASCII are
   written as names: "ka" and "na" are kana, "kei", "mei", "dou", "fuku",
   "setsu", "zen", "jo", "kan", "dai" the part-of-speech kanji, "rui",
   "onaji", "han" the kanji that mark synonyms and antonyms, "nearly" and
   "opposite" the symbols that do, "touten" the ideographic comma, "ei",
   "go", "nin", "shiki", "nichi", "hon" the kanji of the two section lines
   recognize writes. *)

\* [a-zA-Z]
IsLetter(c) == c \in Range(UpperCase) \cup Range(LowerCase)

\* \d
IsDigit(c) == c \in {"0", "1", "2", "3", "4", "5", "6", "7", "8", "9"}

\* [\w-]
IsWordOrHyphen(c) == IsLetter(c) \/ IsDigit(c) \/ c \in {"_", "-"}

\* [\w\s-]
IsWordSpaceOrHyphen(c) == IsWordOrHyphen(c) \/ IsSpace(c)

\* the opening brackets of a phonetic: the square, the round and the wide one
IsOpen(c) == c \in {"[", "(", "wide("}

\* the closing brackets of a phonetic
IsClose(c) == c \in {"]", ")", "wide)"}

IsNotClose(c) == ~IsClose(c)

\* the part-of-speech kanji that may start an entry: kei mei dou fuku setsu zen
IsEntryPos(c) == c \in {"kei", "mei", "dou", "fuku", "setsu", "zen"}

\* the part-of-speech kanji read from a first line
IsPos(c) == IsEntryPos(c) \/ c \in {"jo", "kan", "dai"}

\* the first character of a synonym line
IsSynonymMark(c) == c \in {"nearly", "approx", "~", "wide~", "rui", "onaji"}

\* the first character of an antonym line
IsAntonymMark(c) == c \in {"opposite", "both", "han"}

\* a character of the kana and kanji ranges
IsJapanese(c) ==
    \/ IsPos(c)
    \/ c \in {"ka", "na", "rui", "onaji", "han"}
    \/ c \in {"ei", "go", "nin", "shiki", "nichi", "hon"}

IsNotSpace(c) == ~IsSpace(c)

\* for each position of a line, whether its character is of a class
DigitAt(line) == [k \in DOMAIN line |-> IsDigit(line[k])]

SpaceAt(line) == [k \in DOMAIN line |-> IsSpace(line[k])]

NotSpaceAt(line) == [k \in DOMAIN line |-> IsNotSpace(line[k])]

LetterAt(line) == [k \in DOMAIN line |-> IsLetter(line[k])]

WordOrHyphenAt(line) == [k \in DOMAIN line |-> IsWordOrHyphen(line[k])]

CloseAt(line) == [k \in DOMAIN line |-> IsClose(line[k])]

NotCloseAt(line) == [k \in DOMAIN line |-> IsNotClose(line[k])]

PosAt(line) == [k \in DOMAIN line |-> IsPos(line[k])]

JapaneseAt(line) == [k \in DOMAIN line |-> IsJapanese(line[k])]

\* the position after the longest run, from i on, of positions that are of
\* the class (a greedy quantifier over one class of characters)
RunEnd(at, i) ==
    CHOOSE j \in i..(Len(at) + 1) :
        /\ \A k \in i..(j - 1) : at[k]
        /\ j = Len(at) + 1 \/ ~at[j]

\* the number of positions that are of the class
Count(at) == Cardinality({i \in DOMAIN at : at[i]})

\* isJapaneseMajority(text): japaneseChars / totalChars > 0.3
isJapaneseMajority(line) ==
    /\ Count(NotSpaceAt(line)) > 0
    /\ 10 * Count(JapaneseAt(line)) > 3 * Count(NotSpaceAt(line))

\* isEnglishMajority(text): englishChars / totalChars > 0.5
isEnglishMajority(line) ==
    /\ Count(NotSpaceAt(line)) > 0
    /\ 2 * Count(LetterAt(line)) > Count(NotSpaceAt(line))

\* text.split(/\s+/).length: one more than the runs of white space
TokenCount(line) ==
    1 + Cardinality({i \in DOMAIN line :
                        IsSpace(line[i]) /\ (i = 1 \/ ~IsSpace(line[i - 1]))})

\* isEnglishSentence(text)
isEnglishSentence(line) == TokenCount(line) > 3 /\ isEnglishMajority(line)

\* the result of String.prototype.match when nothing matches
NoMatch == [matched |-> FALSE]

Min(S) == CHOOSE m \in S : \A i \in S : m <= i

----------------------------------------------------------------------------
(* OCR: the patterns *)

\* /^\d{1,4}\s+[a-zA-Z]/.test(line)
entryStartPattern(line) ==
    LET d == RunEnd(DigitAt(line), 1)
        s == RunEnd(SpaceAt(line), d)
    IN  /\ d - 1 >= 1
        /\ d - 1 <= 4
        /\ s > d
        /\ s <= Len(line)
        /\ IsLetter(line[s])

\* /^[a-zA-Z]{2,}\s*[\[（(]/.test(line) || /^[a-zA-Z]{2,}\s+(kei|...|zen)/.test(line)
markerPattern(line) ==
    LET l == RunEnd(LetterAt(line), 1)
        s == RunEnd(SpaceAt(line), l)
    IN  /\ l - 1 >= 2
        /\ s <= Len(line)
        /\ IsOpen(line[s]) \/ (s > l /\ IsEntryPos(line[s]))

\* line.match(/^(\d+\s+)?([a-zA-Z]{2,}(?:\s+[a-zA-Z]+)?)\s*/): group 2
rawWordMatch(line) ==
    LET d  == RunEnd(DigitAt(line), 1)
        s  == RunEnd(SpaceAt(line), d)
        p  == IF d > 1 /\ s > d THEN s ELSE 1
        l  == RunEnd(LetterAt(line), p)
        s2 == RunEnd(SpaceAt(line), l)
        l2 == RunEnd(LetterAt(line), s2)
    IN  IF l - p < 2 THEN NoMatch
        ELSE [matched |-> TRUE,
              g2 |-> IF s2 > l /\ l2 > s2 THEN SubSeq(line, p, l2 - 1)
                     ELSE SubSeq(line, p, l - 1)]

\* the end of group 1 of the word pattern of parseEntry when the group starts
\* at s: the least e with [\w\s-] from s + 1 to e and one of \s*[\[（(], $,
\* \s+[kei...zen] at e + 1; 0 when there is none
LazyWordEnd(line, s) ==
    LET ends == {e \in s..Len(line) :
                    /\ \A k \in (s + 1)..e : IsWordSpaceOrHyphen(line[k])
                    /\ LET r == RunEnd(SpaceAt(line), e + 1)
                       IN  \/ e = Len(line)
                           \/ r <= Len(line) /\ IsOpen(line[r])
                           \/ r > e + 1 /\ r <= Len(line) /\ IsEntryPos(line[r])}
    IN  IF ends = {} THEN 0 ELSE Min(ends)

\* firstLine.match(/\d+\s+([a-zA-Z][\w\s-]*?)(?:\s*[\[（(]|$|\s+[kei...zen])/): group 1
entryWordMatch(line) ==
    LET starts == {i \in DOMAIN line :
                      /\ IsDigit(line[i])
                      /\ LET d == RunEnd(DigitAt(line), i)
                             s == RunEnd(SpaceAt(line), d)
                         IN  /\ s > d
                             /\ s <= Len(line)
                             /\ IsLetter(line[s])
                             /\ LazyWordEnd(line, s) # 0}
    IN  IF starts = {} THEN NoMatch
        ELSE LET s == RunEnd(SpaceAt(line), RunEnd(DigitAt(line), Min(starts)))
             IN  [matched |-> TRUE, g1 |-> SubSeq(line, s, LazyWordEnd(line, s))]

\* firstLine.match(/\d+\s+([a-zA-Z][\w-]+)/): group 1
simpleWordMatch(line) ==
    LET starts == {i \in DOMAIN line :
                      /\ IsDigit(line[i])
                      /\ LET d == RunEnd(DigitAt(line), i)
                             s == RunEnd(SpaceAt(line), d)
                         IN  /\ s > d
                             /\ s <= Len(line)
                             /\ IsLetter(line[s])
                             /\ RunEnd(WordOrHyphenAt(line), s + 1) > s + 1}
    IN  IF starts = {} THEN NoMatch
        ELSE LET s == RunEnd(SpaceAt(line), RunEnd(DigitAt(line), Min(starts)))
             IN  [matched |-> TRUE,
                  g1 |-> SubSeq(line, s, RunEnd(WordOrHyphenAt(line), s + 1) - 1)]

\* line.match(/[\[（(]([^\]）)]+)[\]）)]/): group 1
phoneticMatch(line) ==
    LET starts == {i \in DOMAIN line :
                      /\ IsOpen(line[i])
                      /\ LET c == RunEnd(NotCloseAt(line), i + 1)
                         IN  c > i + 1 /\ c <= Len(line)}
    IN  IF starts = {} THEN NoMatch
        ELSE [matched |-> TRUE,
              g1 |-> SubSeq(line, Min(starts) + 1,
                            RunEnd(NotCloseAt(line), Min(starts) + 1) - 1)]

\* firstLine.match(/(kei|mei|dou|fuku|setsu|zen|jo|kan|dai)/): group 1
posMatch(line) ==
    LET starts == {i \in DOMAIN line : IsPos(line[i])}
    IN  IF starts = {} THEN NoMatch
        ELSE [matched |-> TRUE, g1 |-> <<line[Min(starts)]>>]

\* line.match(/X\s*([kana kanji].+)/), "at" telling where the characters of
\* the class X are: group 1
japaneseAfter(at, line) ==
    LET starts == {i \in DOMAIN line :
                      /\ at[i]
                      /\ LET r == RunEnd(SpaceAt(line), i + 1)
                         IN  r < Len(line) /\ IsJapanese(line[r])}
    IN  IF starts = {} THEN NoMatch
        ELSE [matched |-> TRUE,
              g1 |-> SubSeq(line, RunEnd(SpaceAt(line), Min(starts) + 1), Len(line))]

\* extractJapanesePart(line, word)
extractJapanesePart(line) ==
    LET afterPos == japaneseAfter(PosAt(line), line)
        afterClose == japaneseAfter(CloseAt(line), line)
    IN  IF afterPos.matched THEN Trim(afterPos.g1)
        ELSE IF afterClose.matched THEN Trim(afterClose.g1)
        ELSE <<>>

\* [,touten\s]
IsSeparator(c) == c \in {",", "touten"} \/ IsSpace(c)

IsNotSeparator(c) == ~IsSeparator(c)

SeparatorAt(line) == [k \in DOMAIN line |-> IsSeparator(line[k])]

NotSeparatorAt(line) == [k \in DOMAIN line |-> IsNotSeparator(line[k])]

\* [nearly ... han\s]
IsMarkOrSpace(c) == IsSynonymMark(c) \/ IsAntonymMark(c) \/ IsSpace(c)

MarkOrSpaceAt(line) == [k \in DOMAIN line |-> IsMarkOrSpace(line[k])]

\* s.split(/[,touten\s]+/), the empty pieces left out
RECURSIVE Pieces(_)
Pieces(s) ==
    IF s = <<>> THEN <<>>
    ELSE IF IsSeparator(Head(s))
    THEN Pieces(SubSeq(s, RunEnd(SeparatorAt(s), 1), Len(s)))
    ELSE <<SubSeq(s, 1, RunEnd(NotSeparatorAt(s), 1) - 1)>>
         \o Pieces(SubSeq(s, RunEnd(NotSeparatorAt(s), 1), Len(s)))

\* extractSynonyms(line)
extractSynonyms(line) ==
    LET cleaned == SubSeq(line, RunEnd(MarkOrSpaceAt(line), 1), Len(line))
    IN  SelectSeq(Pieces(cleaned), LAMBDA s : IsLetter(s[1]) /\ Len(s) > 1)

\* the words extractWordsFromRawText leaves out
StopWords ==
    { <<"t", "h", "e">>, <<"a", "n", "d">>, <<"f", "o", "r">>,
    <<"t", "h", "a", "t">>, <<"t", "h", "i", "s">>, <<"w", "i", "t", "h">>,
    <<"f", "r", "o", "m">>, <<"a", "r", "e">>, <<"w", "a", "s">>,
    <<"M", "I", "N", "I", "M", "A", "L">>,
    <<"P", "H", "R", "A", "S", "E", "S">>, <<"S", "t", "a", "g", "e">>,
    <<"F", "i", "n", "a", "l">>, <<"B", "a", "s", "i", "c">>,
    <<"V", "e", "r", "b", "s">>, <<"h", "i", "s">>, <<"h", "e", "r">>,
    <<"i", "t", "s">>, <<"o", "u", "r">>, <<"y", "o", "u">>,
    <<"h", "i", "m">>, <<"s", "h", "e">> }

----------------------------------------------------------------------------
(* OCR: parseSystemEitan *)

MaxLines == 3        \* lines of a recognized text

\* an entry as the parser makes it
ParsedEntry(word, meaning, phonetic) ==
    [ word |-> word, meaning |-> meaning, phonetic |-> phonetic, pos |-> <<>>,
      examples |-> <<>>, synonyms |-> <<>>, antonyms |-> <<>> ]

\* text.split('\n').map(l => l.trim()).filter(l => l.length > 0)
linesOf(text) ==
    SelectSeq([i \in DOMAIN text |-> Trim(text[i])], LAMBDA l : l # <<>>)

\* if (!wordMatch) continue, as a bug would have it: the test left out
NoWord_Unchecked(m) == FALSE

\* if (!wordMatch) continue
NoWord(m) == ~m.matched

\* extractWordsFromRawText: the meaning of the word of line i, the first
\* line of the three after it that is Japanese in the main
MeaningBelow(lines, i) ==
    LET js == {j \in (i + 1)..(i + 3) : j <= Len(lines) /\ isJapaneseMajority(lines[j])}
    IN  IF js = {} THEN <<>> ELSE lines[Min(js)]

\* the phonetic of a line, '' if it has none
PhoneticOf(line) ==
    LET m == phoneticMatch(line)
    IN  IF m.matched THEN m.g1 ELSE <<>>

\* the test for a word already found, as a bug would have it: by equality
Known_SameCase(entries, word) ==
    \E k \in DOMAIN entries : entries[k].word = word

\* entries.find(e => e.word.toLowerCase() === word.toLowerCase())
Known(entries, word) ==
    \E k \in DOMAIN entries : ToLower(entries[k].word) = ToLower(word)

\* extractWordsFromRawText: the loop from line i on
RECURSIVE extractFrom(_, _, _)
extractFrom(lines, i, entries) ==
    IF i > Len(lines) THEN [threw |-> FALSE, entries |-> entries]
    ELSE LET m == rawWordMatch(lines[i])
         IN  IF NoWord(m) THEN extractFrom(lines, i + 1, entries)
             ELSE IF ~m.matched
             THEN \* wordMatch[2] of null: a TypeError
                  [threw |-> TRUE, entries |-> entries]
             ELSE LET word == Trim(m.g2)
                  IN  IF word \in StopWords \/ Len(word) < 3
                         \/ word = <<>>
                         \/ Known(entries, word)
                      THEN extractFrom(lines, i + 1, entries)
                      ELSE extractFrom(lines, i + 1,
                               Append(entries,
                                      ParsedEntry(word, MeaningBelow(lines, i),
                                                  PhoneticOf(lines[i]))))

\* extractWordsFromRawText(text)
extractWordsFromRawText(text) == extractFrom(linesOf(text), 1, <<>>)

\* the pending example as a bug would treat it: dropped, not pushed
Flushed_Dropped(entry, cur) == entry

\* if (currentExample.en) entry.examples.push(currentExample)
Flushed(entry, cur) ==
    IF cur.en # <<>> THEN [entry EXCEPT !.examples = Append(@, cur)] ELSE entry

\* if (!entry.meaning), as a bug would have it: the test left out
MeaningEmpty_Always(entry) == TRUE

\* if (!entry.meaning)
MeaningEmpty(entry) == entry.meaning = <<>>

\* parseEntry: the lines after the first, from line i on; cur is currentExample
RECURSIVE classifyFrom(_, _, _, _)
classifyFrom(lines, i, entry, cur) ==
    IF i > Len(lines)
    THEN Flushed(entry, cur)
    ELSE LET line == lines[i]
             none == [en |-> <<>>, ja |-> <<>>]
         IN  IF IsSynonymMark(line[1]) THEN
                 classifyFrom(lines, i + 1,
                     [entry EXCEPT !.synonyms = @ \o extractSynonyms(line)], cur)
             ELSE IF IsAntonymMark(line[1]) THEN
                 classifyFrom(lines, i + 1,
                     [entry EXCEPT !.antonyms = @ \o extractSynonyms(line)], cur)
             ELSE IF isJapaneseMajority(line) THEN
                 IF MeaningEmpty(entry) THEN
                     classifyFrom(lines, i + 1, [entry EXCEPT !.meaning = line], cur)
                 ELSE IF cur.en # <<>> THEN
                     classifyFrom(lines, i + 1,
                         [entry EXCEPT !.examples = Append(@, [cur EXCEPT !.ja = line])],
                         none)
                 ELSE classifyFrom(lines, i + 1, entry, cur)
             ELSE IF isEnglishMajority(line) THEN
                 classifyFrom(lines, i + 1, Flushed(entry, cur),
                              [en |-> line, ja |-> <<>>])
             ELSE classifyFrom(lines, i + 1, entry, cur)

\* parseEntry: the headword of the first line, '' if it has none
HeadwordOf(firstLine) ==
    LET wordMatch == entryWordMatch(firstLine)
        simpleMatch == simpleWordMatch(firstLine)
    IN  IF wordMatch.matched THEN Trim(wordMatch.g1)
        ELSE IF simpleMatch.matched THEN Trim(simpleMatch.g1)
        ELSE <<>>

\* parseEntry(lines) for a group of one line or more
parseEntry(lines) ==
    LET firstLine == lines[1]
        pos == posMatch(firstLine)
        entry == [ParsedEntry(HeadwordOf(firstLine), extractJapanesePart(firstLine),
                              PhoneticOf(firstLine))
                     EXCEPT !.pos = IF pos.matched THEN pos.g1 ELSE <<>>]
    IN  classifyFrom(lines, 2, entry, [en |-> <<>>, ja |-> <<>>])

\* the indices of the lines that start an entry, as a bug would have them:
\* those of strategy 1 and of strategy 2 together
entryIndices_Mixed(lines) ==
    {i \in DOMAIN lines : entryStartPattern(lines[i]) \/ markerPattern(lines[i])}

\* entryIndices: the numbered lines, or when there is none the lines of a
\* word followed by a phonetic or a part of speech
entryIndices(lines) ==
    LET numbered == {i \in DOMAIN lines : entryStartPattern(lines[i])}
    IN  IF numbered # {} THEN numbered
        ELSE {i \in DOMAIN lines : markerPattern(lines[i])}

\* the elements of a set of numbers in ascending order
RECURSIVE Ascending(_)
Ascending(S) == IF S = {} THEN <<>> ELSE <<Min(S)>> \o Ascending(S \ {Min(S)})

\* the groups of lines as a bug would form them: every group up to the end
segment_ToEnd(lines, indices) ==
    [k \in DOMAIN indices |-> [first |-> indices[k], last |-> Len(lines)]]

\* the groups of lines: startIdx = entryIndices[i], endIdx = entryIndices[i + 1]
\* or lines.length, entryLines = lines.slice(startIdx, endIdx)
segment(lines, indices) ==
    [k \in DOMAIN indices |->
        [first |-> indices[k],
         last  |-> IF k + 1 <= Len(indices) THEN indices[k + 1] - 1 ELSE Len(lines)]]

\* if (entry && entry.word), as a bug would have it: every entry kept
KeepEntry_Any(entry) == TRUE

\* if (entry && entry.word)
KeepEntry(entry) == entry.word # <<>>

\* the entries of the groups, in order
RECURSIVE parseGroups(_, _, _)
parseGroups(lines, groups, k) ==
    IF k > Len(groups) THEN <<>>
    ELSE LET entry == parseEntry(SubSeq(lines, groups[k].first, groups[k].last))
         IN  (IF KeepEntry(entry) THEN <<entry>> ELSE <<>>)
             \o parseGroups(lines, groups, k + 1)

\* if (!text || typeof text !== 'string')
NotText(input) == input.type # "string" \/ input.text = << <<>> >>

\* parseSystemEitan(text): what it returns, and how it got there
parseSystemEitan(input) ==
    IF NotText(input)
    THEN [threw |-> FALSE, strategy |-> 0, lines |-> <<>>, groups |-> <<>>,
          entries |-> <<>>]
    ELSE LET lines == linesOf(input.text)
             indices == Ascending(entryIndices(lines))
             groups == segment(lines, indices)
             direct == extractWordsFromRawText(input.text)
         IN  IF indices = <<>>
             THEN [threw |-> direct.threw, strategy |-> 3, lines |-> lines,
                   groups |-> <<>>, entries |-> direct.entries]
             ELSE [threw |-> FALSE,
                   strategy |-> IF entryStartPattern(lines[indices[1]]) THEN 1 ELSE 2,
                   lines |-> lines, groups |-> groups,
                   entries |-> parseGroups(lines, groups, 1)]

\* the lines a recognized text is made of
TextLines ==
    { <<"1", " ", "a", "b", "c", " ", "[", "e", "]", " ", "kei", " ", "ka", "na">>,
      <<"1", "1", "1", "1", "1", " ", "a", "b", "c">>,
      <<" ", "2", " ", "a", "b", "d", " ">>,
      <<"1", " ", "a", " ", "ka">>,
      <<"a", "b", "c", " ", "[", "e", "]">>,
      <<"a", "b", "d", " ", "kei", " ", "ka">>,
      <<"ka", "na", "ka">>,
      <<"t", "h", "e">>,
      <<"a", "b">>,
      <<"a", "b", "c", " ", "a", "b", " ", "a", "b", "c", " ", "a">>,
      <<"nearly", " ", "a", "b", "c", ",", " ", "a">>,
      <<"?", "?">>,
      <<" ">>,
      <<>> }

\* what parseSystemEitan may be called with: null, undefined, a number, or a
\* string of one line or more (the empty string has one empty line)
TextInputsOfParser ==
    { [type |-> "null"], [type |-> "undefined"], [type |-> "number"] }
    \cup { [type |-> "string", text |-> t] : t \in Lists(TextLines, MaxLines) \ {<<>>} }

ParserUnchanged == UNCHANGED <<words, now, last, hist, due, store, ui, writes, timers, calls, op>>

\* OCR.parseSystemEitan(text) called by App
ParseSystemEitan ==
    /\ ~ocr.called
    /\ ocr' = [called |-> TRUE, input |-> ocr.input, out |-> parseSystemEitan(ocr.input)]
    /\ ParserUnchanged

\* a recognized text waiting to be parsed
InitParse ==
    /\ words = <<>>
    /\ now = [d |-> 1, ms |-> 1]
    /\ last = NotCalled
    /\ hist = <<>>
    /\ due = NotCalled
    /\ store = emptyStore
    /\ ui = idleUi
    /\ writes = <<>>
    /\ timers = <<>>
    /\ calls = <<>>
    /\ op = NotCalled
    /\ ocr \in {[called |-> FALSE, input |-> i] : i \in TextInputsOfParser}

NextParse == ParseSystemEitan

SpecParse == InitParse /\ [][NextParse]_vars

MaxBodyLines == 4    \* lines of a text after its first line

\* first lines of an entry: one with its meaning on the line, one without
EntryHeads ==
    { <<"1", " ", "a", "b", "c", " ", "[", "e", "]", " ", "kei", " ", "ka", "na">>,
      <<" ", "2", " ", "a", "b", "d", " ">> }

\* lines under the first line of an entry: English, Japanese, one that is
\* both, a synonym line, an antonym line in Japanese, one that is neither,
\* and the first line of another entry
EntryBodyLines ==
    { <<"t", "h", "e">>,
      <<"ka", "na", "ka">>,
      <<"a", "b", "d", " ", "kei", " ", "ka">>,
      <<"nearly", " ", "a", "b", "c", ",", " ", "a">>,
      <<"han", " ", "ka">>,
      <<"?", "?">>,
      <<" ", "2", " ", "a", "b", "d", " ">> }

\* the text of a numbered entry and the lines recognized under it
InitEntry ==
    /\ words = <<>>
    /\ now = [d |-> 1, ms |-> 1]
    /\ last = NotCalled
    /\ hist = <<>>
    /\ due = NotCalled
    /\ store = emptyStore
    /\ ui = idleUi
    /\ writes = <<>>
    /\ timers = <<>>
    /\ calls = <<>>
    /\ op = NotCalled
    /\ ocr \in {[called |-> FALSE,
                 input |-> [type |-> "string", text |-> <<h>> \o b]] :
                    h \in EntryHeads, b \in Lists(EntryBodyLines, MaxBodyLines)}

NextEntry == ParseSystemEitan

SpecEntry == InitEntry /\ [][NextEntry]_vars

----------------------------------------------------------------------------
(* OCR: recognize *)

MaxPassLines == 2    \* lines one pass of the recognizer returns

\* the line recognize puts before the text of the English pass
EngHeader ==
    <<"=", "=", "=", " ", "ei", "go", "nin", "shiki", " ", "=", "=", "=">>

\* the line recognize puts before the text of the Japanese and English pass
JpnHeader ==
    <<"=", "=", "=", " ", "nichi", "hon", "go", "nin", "shiki", " ", "=", "=", "=">>

\* recognize: the two texts joined, each a string of one line or more;
\* header + engText + two line ends + header + jpnText
recognize(engText, jpnText) ==
    <<EngHeader>> \o engText \o << <<>>, JpnHeader >> \o jpnText

\* the lines a pass may return
PassLines ==
    { <<"a", "b", "c">>,
      <<"A", "b", "c", " ", "ka", "na">>,
      <<"t", "h", "e">>,
      <<"a", "b">>,
      <<"1", " ", "a", "b", "c">> }

\* the texts a pass may return: the empty string or lines of PassLines
PassTexts == {<< <<>> >>} \cup (Lists(PassLines, MaxPassLines) \ {<<>>})

\* const text = await OCRProcessor.recognize(...)
Recognize ==
    /\ ~ocr.called
    /\ ~Has(ocr, "input")
    /\ ocr' = [called |-> FALSE,
               input |-> [type |-> "string",
                          text |-> recognize(ocr.image.eng, ocr.image.jpn)]]
    /\ ParserUnchanged

\* const parsed = OCRProcessor.parseSystemEitan(text)
ParseRecognized ==
    /\ Has(ocr, "input")
    /\ ParseSystemEitan

\* an image of which each pass of the recognizer will read some text
InitRecognize ==
    /\ words = <<>>
    /\ now = [d |-> 1, ms |-> 1]
    /\ last = NotCalled
    /\ hist = <<>>
    /\ due = NotCalled
    /\ store = emptyStore
    /\ ui = idleUi
    /\ writes = <<>>
    /\ timers = <<>>
    /\ calls = <<>>
    /\ op = NotCalled
    /\ ocr \in {[called |-> FALSE, image |-> [eng |-> e, jpn |-> j]] :
                    e \in PassTexts, j \in PassTexts}

NextRecognize == Recognize \/ ParseRecognized

SpecRecognize == InitRecognize /\ [][NextRecognize]_vars

----------------------------------------------------------------------------
(* Properties of the parser *)

\* the lines of the parsed text that match the numbered-entry pattern
NumberedLines == {i \in DOMAIN ocr.out.lines : entryStartPattern(ocr.out.lines[i])}

\* the lines of the parsed text that a phonetic or a part of speech marks
MarkerLines == {i \in DOMAIN ocr.out.lines : markerPattern(ocr.out.lines[i])}

\* the first lines of the groups the segmenter formed
GroupStarts == {ocr.out.groups[k].first : k \in DOMAIN ocr.out.groups}

\* C14: parseSystemEitan is total: for null, undefined, a value that is not
\* a string and the empty string it returns the empty list, and for every
\* string, whichever strategy is taken, it returns a list and does not raise.
C14_Total ==
    ocr.called =>
        /\ ~ocr.out.threw
        /\ ocr.out.entries \in Seq({ocr.out.entries[k] : k \in DOMAIN ocr.out.entries})
        /\ NotText(ocr.input) => ocr.out.entries = <<>>

\* a text parsed by direct extraction, one of its lines without a word and
\* another giving an entry
C14_Witness ==
    /\ ocr.called
    /\ ~NotText(ocr.input)
    /\ ocr.out.strategy = 3
    /\ \E i \in DOMAIN ocr.out.lines : ~rawWordMatch(ocr.out.lines[i]).matched
    /\ ocr.out.entries # <<>>
    /\ ~ocr.out.threw

\* C15: every element of the list parseSystemEitan returns has a non-empty
\* headword, on the grouped path as on the direct extraction; a group whose
\* first line gives no headword adds no element and raises no error.
C15_HeadwordNonEmpty ==
    ocr.called =>
        /\ \A k \in DOMAIN ocr.out.entries : ocr.out.entries[k].word # <<>>
        /\ ~ocr.out.threw
        /\ ocr.out.strategy \in {1, 2} =>
              Len(ocr.out.entries) =
                  Cardinality({k \in DOMAIN ocr.out.groups :
                      HeadwordOf(ocr.out.lines[ocr.out.groups[k].first]) # <<>>})

\* a numbered text with a group that gave an entry and one whose first line
\* gave no headword
C15_Witness ==
    /\ ocr.called
    /\ ocr.out.strategy = 1
    /\ ocr.out.entries # <<>>
    /\ Len(ocr.out.groups) > Len(ocr.out.entries)

\* C16: for a text with N >= 1 lines matching the numbered-entry pattern the
\* segmenter forms N groups: group k starts at the k-th matching line and
\* ends at the line before the next matching line, the last at the last
\* line; the groups are contiguous and disjoint, and a line before the first
\* matching line is in no group.
C16_GroupCount ==
    (ocr.called /\ NumberedLines # {}) =>
        LET groups == ocr.out.groups
        IN  /\ Len(groups) = Cardinality(NumberedLines)
            /\ GroupStarts = NumberedLines
            /\ groups[1].first = Min(NumberedLines)
            /\ groups[Len(groups)].last = Len(ocr.out.lines)
            /\ \A k \in DOMAIN groups :
                  /\ groups[k].first <= groups[k].last
                  /\ NumberedLines \cap (groups[k].first..groups[k].last)
                        = {groups[k].first}
                  /\ k < Len(groups) => groups[k + 1].first = groups[k].last + 1

\* two numbered lines after a line that is not numbered
C16_Witness ==
    /\ ocr.called
    /\ Cardinality(NumberedLines) = 2
    /\ Min(NumberedLines) = 2
    /\ Len(ocr.out.groups) = 2
    /\ ocr.out.groups[1].first = 2

\* C17: the strategies are tried in order and the first that finds a
\* boundary decides alone: the marker lines are boundaries only when no line
\* is numbered, direct extraction runs only when neither found a boundary,
\* and the boundaries of two strategies are never mixed.
C17_StrategyOrder ==
    (ocr.called /\ ~NotText(ocr.input)) =>
        /\ NumberedLines # {} =>
              ocr.out.strategy = 1 /\ GroupStarts = NumberedLines
        /\ (NumberedLines = {} /\ MarkerLines # {}) =>
              ocr.out.strategy = 2 /\ GroupStarts = MarkerLines
        /\ (NumberedLines = {} /\ MarkerLines = {}) =>
              /\ ocr.out.strategy = 3
              /\ ocr.out.groups = <<>>
              /\ ocr.out.entries = extractWordsFromRawText(ocr.input.text).entries

\* a text with a numbered line and a marker line: the marker line starts no
\* group
C17_Witness ==
    /\ ocr.called
    /\ ~NotText(ocr.input)
    /\ NumberedLines # {}
    /\ MarkerLines \ NumberedLines # {}
    /\ ocr.out.strategy = 1
    /\ GroupStarts = NumberedLines

\* C18 (as stated): for every text on which direct extraction alone returns
\* an entry, parseSystemEitan returns an entry, the text whose only
\* boundaries are marker lines included.
C18_NeverZero ==
    (ocr.called /\ ~NotText(ocr.input)
        /\ extractWordsFromRawText(ocr.input.text).entries # <<>>)
        => ocr.out.entries # <<>>

\* the lines of group k of the parsed text
GroupLines(k) ==
    SubSeq(ocr.out.lines, ocr.out.groups[k].first, ocr.out.groups[k].last)

\* the groups that gave an entry, in order: entry n comes from group Kept[n]
Kept ==
    Ascending({k \in DOMAIN ocr.out.groups :
                  HeadwordOf(ocr.out.lines[ocr.out.groups[k].first]) # <<>>})

\* the line starts with a mark of synonyms or of antonyms
MarkerLed(line) == IsSynonymMark(line[1]) \/ IsAntonymMark(line[1])

\* line j of the group g is under the first line and Japanese in the main;
\* with marked = FALSE the lines that start with a mark are left out
TargetLine(g, j, marked) ==
    /\ j \in 2..Len(g)
    /\ isJapaneseMajority(g[j])
    /\ marked \/ ~MarkerLed(g[j])

\* line i of the group g is under the first line, starts with no mark, is
\* not Japanese in the main and is English in the main
ExampleLine(g, i) ==
    /\ i \in 2..Len(g)
    /\ ~MarkerLed(g[i])
    /\ ~isJapaneseMajority(g[i])
    /\ isEnglishMajority(g[i])

\* the meaning is set when line j of the group is reached
MeaningSetAt(g, j, marked) ==
    \/ extractJapanesePart(g[1]) # <<>>
    \/ \E h \in 2..(j - 1) : TargetLine(g, h, marked)

\* the lines that translate the example of line i: the Japanese lines that
\* come before the next example line and find the meaning set
Translators(g, i, marked) ==
    {j \in (i + 1)..Len(g) :
        /\ TargetLine(g, j, marked)
        /\ MeaningSetAt(g, j, marked)
        /\ \A h \in (i + 1)..(j - 1) : ~ExampleLine(g, h)}

\* the example of line i: its translation is the first of its translators
ExampleOf(g, i, marked) ==
    LET js == Translators(g, i, marked)
    IN  [en |-> g[i], ja |-> IF js = {} THEN <<>> ELSE g[Min(js)]]

\* the examples of the group, one for each example line, in line order
ExamplesOf(g, marked) ==
    LET at == Ascending({i \in DOMAIN g : ExampleLine(g, i)})
    IN  [n \in DOMAIN at |-> ExampleOf(g, at[n], marked)]

\* the meaning of the group: the one of the first line, or else the first
\* Japanese line under it
MeaningOf(g, marked) ==
    LET targets == {j \in DOMAIN g : TargetLine(g, j, marked)}
        first == extractJapanesePart(g[1])
    IN  IF first # <<>> THEN first
        ELSE IF targets = {} THEN <<>>
        ELSE g[Min(targets)]

\* C21: in parseEntry every line under the first that starts with no mark,
\* is not Japanese in the main and is English in the main gives exactly one
\* example, in line order, with the line as its non-empty source; the
\* example has a translation only when a Japanese line came while it was
\* pending and the meaning was set, and is source-only when the next such
\* English line or the end of the group came first.
C21_OneExamplePerLine ==
    (ocr.called /\ ocr.out.strategy \in {1, 2}) =>
        LET kept == Kept
        IN  \A n \in DOMAIN ocr.out.entries :
            LET g == GroupLines(kept[n])
                examples == ocr.out.entries[n].examples
            IN  /\ Len(examples) = Cardinality({i \in DOMAIN g : ExampleLine(g, i)})
                /\ examples = ExamplesOf(g, FALSE)
                /\ \A k \in DOMAIN examples : examples[k].en # <<>>

\* a group with three examples: one translated, one pushed source-only by
\* the next English line, one pushed source-only at the end of the group
C21_Witness ==
    /\ ocr.called
    /\ ocr.out.strategy = 1
    /\ Len(ocr.out.entries) = 1
    /\ Len(ocr.out.entries[1].examples) = 3
    /\ ocr.out.entries[1].examples[1].ja # <<>>
    /\ ocr.out.entries[1].examples[2].ja = <<>>
    /\ ocr.out.entries[1].examples[3].ja = <<>>

\* C22 as stated: every Japanese line under the first line sets the meaning
\* when the meaning is empty, and becomes the translation of the pending
\* example when the meaning is set.
C22_EveryTargetLine ==
    (ocr.called /\ ocr.out.strategy \in {1, 2}) =>
        LET kept == Kept
        IN  \A n \in DOMAIN ocr.out.entries :
            LET g == GroupLines(kept[n])
            IN  /\ ocr.out.entries[n].meaning = MeaningOf(g, TRUE)
                /\ ocr.out.entries[n].examples = ExamplesOf(g, TRUE)

\* C22 as amended: a Japanese line under the first line that starts with no
\* mark of synonyms or antonyms sets the meaning only when the meaning is
\* empty, a pending example staying pending; once set the meaning is never
\* overwritten; when the meaning is set and an example is pending the line
\* becomes its translation, and with no example pending it changes nothing.
\* A Japanese line that starts with a mark does none of this.
C22_UnmarkedTargetLine ==
    (ocr.called /\ ocr.out.strategy \in {1, 2}) =>
        LET kept == Kept
        IN  \A n \in DOMAIN ocr.out.entries :
            LET g == GroupLines(kept[n])
                e == ocr.out.entries[n]
            IN  /\ e.meaning = MeaningOf(g, FALSE)
                /\ e.examples = ExamplesOf(g, FALSE)

\* an entry without a meaning on its first line: an English line, a Japanese
\* line that becomes the meaning and leaves the example pending, a second
\* Japanese line that becomes the translation, a third that changes nothing
C22_Witness ==
    /\ ocr.called
    /\ ocr.out.strategy = 1
    /\ Len(ocr.out.lines) = 5
    /\ Len(ocr.out.entries) = 1
    /\ extractJapanesePart(ocr.out.lines[1]) = <<>>
    /\ ExampleLine(ocr.out.lines, 2)
    /\ \A j \in 3..5 : TargetLine(ocr.out.lines, j, FALSE)
    /\ ocr.out.lines[3] # ocr.out.lines[4]
    /\ ocr.out.entries[1].meaning = ocr.out.lines[3]
    /\ ocr.out.entries[1].examples = <<[en |-> ocr.out.lines[2], ja |-> ocr.out.lines[4]]>>

\* the first line of the text whose word is the headword, whatever the case
SourceLine(lines, word) ==
    Min({i \in DOMAIN lines :
            /\ rawWordMatch(lines[i]).matched
            /\ ToLower(Trim(rawWordMatch(lines[i]).g2)) = ToLower(word)})

\* C23: no entry parseSystemEitan returns has its headword from a line that
\* is a long English sentence (English in the main, more than 3 tokens):
\* neither the line direct extraction read the word from nor the first line
\* of a group that gave an entry is such a line.
C23_NoSentenceHeadword ==
    (ocr.called /\ ~NotText(ocr.input)) =>
        LET out == ocr.out
        IN  /\ out.strategy = 3 =>
                  \A k \in DOMAIN out.entries :
                      ~isEnglishSentence(
                          out.lines[SourceLine(out.lines, out.entries[k].word)])
            /\ out.strategy \in {1, 2} =>
                  \A k \in DOMAIN out.groups :
                      HeadwordOf(out.lines[out.groups[k].first]) # <<>> =>
                          ~isEnglishSentence(out.lines[out.groups[k].first])

\* the lines direct extraction takes a word from: those that start with a
\* word of three letters or more that is no stop word
Candidates(lines) ==
    {i \in DOMAIN lines :
        LET m == rawWordMatch(lines[i])
        IN  /\ m.matched
            /\ Len(Trim(m.g2)) >= 3
            /\ Trim(m.g2) \notin StopWords}

\* the word direct extraction reads from a line
WordAt(lines, i) == Trim(rawWordMatch(lines[i]).g2)

\* C24: on direct extraction no two entries have headwords that are equal
\* ignoring case, over the whole recognized text with its two passes, the
\* first occurrence in line order being the one kept; every headword has
\* three characters or more and is no stop word; pos is empty and there are
\* no examples, synonyms or antonyms.
C24_DirectEntries ==
    (ocr.called /\ ocr.out.strategy = 3) =>
        LET lines == ocr.out.lines
            cand == Candidates(lines)
            firsts == Ascending({i \in cand :
                          \A j \in cand :
                              j < i => ToLower(WordAt(lines, j)) # ToLower(WordAt(lines, i))})
            entries == ocr.out.entries
        IN  /\ \A k, l \in DOMAIN entries :
                  k # l => ToLower(entries[k].word) # ToLower(entries[l].word)
            /\ [k \in DOMAIN entries |-> entries[k].word]
                   = [k \in DOMAIN firsts |-> WordAt(lines, firsts[k])]
            /\ \A k \in DOMAIN entries :
                  /\ Len(entries[k].word) >= 3
                  /\ entries[k].word \notin StopWords
                  /\ entries[k].pos = <<>>
                  /\ entries[k].examples = <<>>
                  /\ entries[k].synonyms = <<>>
                  /\ entries[k].antonyms = <<>>

\* a word read in the English pass and again, in another case, in the
\* Japanese pass, next to a stop word and a short word: one entry
C24_Witness ==
    /\ ocr.called
    /\ ocr.out.strategy = 3
    /\ Len(ocr.out.entries) = 1
    /\ ocr.out.entries[1].word = <<"a", "b", "c">>
    /\ \E i, j \in DOMAIN ocr.out.lines :
          /\ i < j
          /\ ocr.out.lines[i] = <<"a", "b", "c">>
          /\ ocr.out.lines[j] = <<"A", "b", "c", " ", "ka", "na">>
    /\ \E i \in DOMAIN ocr.out.lines : ocr.out.lines[i] = <<"t", "h", "e">>
    /\ \E i \in DOMAIN ocr.out.lines : ocr.out.lines[i] = <<"a", "b">>

\* C29: when parseSystemEitan runs on the text recognize returns, no entry
\* has one of the two section lines as its meaning or as the translation of
\* an example, on the grouped path and on direct extraction.
C29_NoSectionLine ==
    ocr.called =>
        \A k \in DOMAIN ocr.out.entries :
            LET e == ocr.out.entries[k]
            IN  /\ e.meaning \notin {EngHeader, JpnHeader}
                /\ \A x \in DOMAIN e.examples :
                      e.examples[x].ja \notin {EngHeader, JpnHeader}

====
